---- MODULE Spec2Model ----
(***************************************************************************)
(* Model of the trend classification and strategy optimisation engine of   *)
(* web/services/analysis_service.py (stock-web).                           *)
(*                                                                         *)
(* Numbers.  The code works on floats; the model works on integers:        *)
(*   - a bias ratio or a bias threshold is counted in 1/BiasScale          *)
(*     (0.002 is 20);                                                      *)
(*   - a price is a whole number of ticks, so "close <= 0.0001" is         *)
(*     "close <= 0";                                                       *)
(*   - capital is counted in 1/CapScale of a currency unit, a number of    *)
(*     shares in 1/ShareScale, a percentage in 1/PctScale of a percent;    *)
(*     every division truncates.                                           *)
(***************************************************************************)
EXTENDS Integers, Sequences, FiniteSets, TLC

(***************************************************************************)
(* Program constants                                                       *)
(***************************************************************************)
RSI_BUY_THRESHOLD == 40
RSI_SELL_THRESHOLD == 75
\* RSI_SELL_BIAS_FACTOR = 0.8, in tenths
RSI_SELL_BIAS_FACTOR == 8
\* StrategyConfig.STRAT_COMMISSION = 0.002, in thousandths
STRAT_COMMISSION == 2
STRAT_INITIAL_CAPITAL == 100000
MIN_STRAT_TRADES == 3

(***************************************************************************)
(* Fixed-point resolutions of the float quantities                         *)
(***************************************************************************)
BiasScale == 10000
CapScale == 10
ShareScale == 1000
PctScale == 10000

(***************************************************************************)
(* Bounds of the model                                                     *)
(***************************************************************************)
\* longest input series of the backtest specification
MaxBars == 3

(***************************************************************************)
(* State                                                                   *)
(***************************************************************************)
VARIABLES
    \* backtest_numba: the arguments ...
    close_arr, bias5_arr, bias60_arr, rsi_arr,
    buy_bias_threshold, sell_bias_threshold,
    \* ... the locals, held in one record (capital, hold_shares, cost_price,
    \* in_market, trade_count, win_count, and the history counters entries,
    \* exits), the loop index, the position in the function and the result
    bt, bt_i, bt_pc, bt_result

btVars == <<close_arr, bias5_arr, bias60_arr, rsi_arr,
            buy_bias_threshold, sell_bias_threshold, bt, bt_i, bt_pc, bt_result>>

\* _worker_optimize_stock from line 146 on: the arrays of the window, the
\* benchmark cost, best_result, the position in the grid (cells are numbered
\* in iteration order), the position in the function, the value returned;
\* held is a history variable: the cell whose parameters best_result holds
\* and the unrounded return of its backtest
VARIABLES
    w_close_arr, w_bias_short_arr, w_bias_long_arr, w_rsi_arr, w_benchmark_cost,
    best_result, w_cell, w_pc, w_return, held,
    \* lines 91-96 and 136: the locals years and start_idx (start_idx counts
    \* from 1 in the model)
    w_years, w_start_idx

gridVars == <<w_close_arr, w_bias_short_arr, w_bias_long_arr, w_rsi_arr,
              w_benchmark_cost, best_result, w_cell, w_pc, w_return, held,
              w_years, w_start_idx>>

\* the stock collection (code -> record), the clock behind datetime.now(), and
\* the last call of _analyze_single_stock (its stock, what the download of
\* the history returned and the place the call returned from), None before
\* the first call
VARIABLES collection, now, analyzed

storeVars == <<collection, now, analyzed>>

\* the shared CrawlerStatus; the method of AnalysisService that is running;
\* analyze_trend: all_basic_docs (the codes) and the position of the loop;
\* optimize_strategies: target_stocks (the codes), the state of each call
\* submitted to the pool, the calls that never complete, the position of the
\* loop over the results and the position in the method
VARIABLES status, task, all_basic_docs, trend_i,
          target_stocks, pool, hung, res_i, opt_pc,
          \* the runs started and the crawler updates made so far
          runs, updates,
          \* history: how the last run ended, and the stocks for which the
          \* latest run produced no strategy parameters
          last_exit, no_params,
          \* analyze_trend: the position in the body of the loop ("check": at
          \* the stop check of line 213, "analyzing": between status.update and
          \* the end of the try block)
          trend_pc,
          \* history: where the running method was when the stop was requested,
          \* the stocks whose analysis raised in the current analyze_trend, and
          \* the ma_strategy of every stock when optimize_strategies started
          stop_point, trend_raised, before

runVars == <<status, task, all_basic_docs, trend_i, target_stocks, pool, hung,
             res_i, opt_pc, runs, updates, last_exit, no_params,
             trend_pc, stop_point, trend_raised, before>>

\* analyze_ma_bias.main: the position in main; the size of the pool and of
\* the semaphore; for every stock of the query the state of its sem_task
\* ("new", "waiting" inside wait_for, "done", "consumed" by the loop of line
\* 372) and the value it returned; the state of the call submitted to the
\* pool ("none", "queued", "running", "finished", "cancelled"); the stocks
\* whose computation never finishes; what optimize_single_stock_process
\* returns for each stock when it finishes; the stocks main has written
VARIABLES m_pc, m_workers, m_stocks, m_task, m_res, m_item, m_hung,
          m_outcome, m_written

mainVars == <<m_pc, m_workers, m_stocks, m_task, m_res, m_item, m_hung,
              m_outcome, m_written>>

\* check_signals_and_notify: the position in the method ("start", then
\* "skipped" when the record of the stock was passed over, "evaluated" when
\* its latest bar was examined) and the four lists of the report, as the
\* sets of the stocks they name
VARIABLES sig_pc, buy_signals, sell_signals, approach_buy_signals,
          approach_sell_signals

sigVars == <<sig_pc, buy_signals, sell_signals, approach_buy_signals,
             approach_sell_signals>>

\* main.py: the background tasks that were started, in the order of their
\* start; each is a record of its kind ("crawl", "recalculate", "trends")
\* and its position
VARIABLES jobs

trigVars == <<jobs>>

vars == <<btVars, gridVars, storeVars, runVars, mainVars, sigVars, trigVars>>

\* an optional value (a field that may be missing, a result that may be
\* None): None is the empty sequence, a value x is <<x>>
None == <<>>
Some(x) == <<x>>

(***************************************************************************)
(* backtest_numba                                                          *)
(***************************************************************************)
initial_capital == STRAT_INITIAL_CAPITAL * CapScale

\* lines 36-42: the locals before the loop; entries and exits count the
\* executions of the buy branch (72-76) and of the sell branch (60-67)
BtStart ==
    [capital |-> initial_capital, hold_shares |-> 0, cost_price |-> 0,
     in_market |-> FALSE, trade_count |-> 0, win_count |-> 0,
     entries |-> 0, exits |-> 0]

\* line 57-58, 60: condition_normal or condition_early
SellCondition(b5, current_rsi, sell) ==
    \/ b5 >= sell
    \/ /\ 10 * b5 >= sell * RSI_SELL_BIAS_FACTOR
       /\ current_rsi > RSI_SELL_THRESHOLD

\* a buy condition that forgets the RSI filter
BuyCondition_NoRsi(b60, current_rsi, buy) ==
    b60 <= buy

\* line 72
BuyCondition(b60, current_rsi, buy) ==
    b60 <= buy /\ current_rsi < RSI_BUY_THRESHOLD

\* lines 73-74: hold_shares = capital / (current_price * (1 + commission))
SharesBought(capital, current_price) ==
    (((capital * 1000) \div (1000 + STRAT_COMMISSION)) * ShareScale) \div current_price

\* line 61: revenue = hold_shares * current_price * (1 - commission)
Revenue(hold_shares, current_price) ==
    (((hold_shares * current_price) \div ShareScale) * (1000 - STRAT_COMMISSION)) \div 1000

\* line 62: current_profit = revenue - (hold_shares * cost_price)
CurrentProfit(revenue, hold_shares, cost_price) ==
    revenue - ((hold_shares * cost_price) \div ShareScale)

\* a sell branch that keeps the shares
BtSell_KeepShares(st, current_price) ==
    LET revenue == Revenue(st.hold_shares, current_price)
        current_profit == CurrentProfit(revenue, st.hold_shares, st.cost_price)
    IN [st EXCEPT !.capital = revenue,
                  !.in_market = FALSE,
                  !.trade_count = @ + 1,
                  !.win_count = IF current_profit > 0 THEN @ + 1 ELSE @,
                  !.exits = @ + 1]
\* lines 61-67: the sell branch
BtSell(st, current_price) ==
    LET revenue == Revenue(st.hold_shares, current_price)
        current_profit == CurrentProfit(revenue, st.hold_shares, st.cost_price)
    IN [st EXCEPT !.capital = revenue,
                  !.in_market = FALSE,
                  !.hold_shares = 0,
                  !.trade_count = @ + 1,
                  !.win_count = IF current_profit > 0 THEN @ + 1 ELSE @,
                  !.exits = @ + 1]

\* lines 73-76: the buy branch
BtBuy(st, current_price) ==
    [st EXCEPT !.hold_shares = SharesBought(st.capital, current_price),
               !.cost_price = current_price,
               !.in_market = TRUE,
               !.entries = @ + 1]

\* lines 46-76: one iteration of the loop, on one bar
BtBar(st, current_price, b5, b60, current_rsi, buy, sell) ==
    IF current_price <= 0 THEN st
    ELSE IF st.in_market
         THEN IF SellCondition(b5, current_rsi, sell)
              THEN BtSell(st, current_price) ELSE st
         ELSE IF BuyCondition(b60, current_rsi, buy)
              THEN BtBuy(st, current_price) ELSE st

\* lines 78-80: final_value, with close_arr[-1] the last element of the input
FinalValue(st, closes) ==
    IF st.in_market
    THEN Revenue(st.hold_shares, closes[Len(closes)])
    ELSE st.capital

\* line 82: return_pct = (final_value - initial_capital) / initial_capital * 100
ReturnPct(final_value) ==
    ((final_value - initial_capital) * 100) \div (initial_capital \div PctScale)

\* lines 45-76 as a function of the input: the locals after the first k bars
RECURSIVE BtAfter(_, _, _, _, _, _, _)
BtAfter(k, closes, b5s, b60s, rsis, buy, sell) ==
    IF k = 0 THEN BtStart
    ELSE BtBar(BtAfter(k - 1, closes, b5s, b60s, rsis, buy, sell),
               closes[k], b5s[k], b60s[k], rsis[k], buy, sell)

\* lines 25-83: the function, returning (return_pct, trade_count, win_count)
backtest_numba(closes, b5s, b60s, rsis, buy, sell) ==
    LET st == BtAfter(Len(closes), closes, b5s, b60s, rsis, buy, sell)
    IN [ret |-> ReturnPct(FinalValue(st, closes)),
        trades |-> st.trade_count, wins |-> st.win_count]

(***************************************************************************)
(* Inputs of the backtest specification                                    *)
(***************************************************************************)
\* closes: missing data (0), a price, that price one tick up (a rise smaller
\* than the two commissions), a clearly higher price
BtCloses == {0, 250, 251, 260}
\* (short bias, long bias, RSI) of a bar, around the thresholds (20, -20):
\* buy signal; long bias low but RSI not weak; full sell signal; early sell
\* (0.8 of the threshold, RSI overbought); 0.8 of the threshold without
\* overbought RSI; buy and sell conditions on the same bar
BtSignals ==
    { <<0, -20, 30>>, <<0, -20, 50>>, <<20, 0, 50>>,
      <<16, 0, 80>>, <<16, 0, 50>>, <<20, -20, 30>> }
BtThresholds == { <<-20, 20>> }

BtIdle ==
    /\ close_arr = <<>> /\ bias5_arr = <<>> /\ bias60_arr = <<>> /\ rsi_arr = <<>>
    /\ buy_bias_threshold = 0 /\ sell_bias_threshold = 0
    /\ bt = BtStart /\ bt_i = 0 /\ bt_pc = "idle" /\ bt_result = <<>>

BtInit ==
    \E n \in 0..MaxBars :
      \E cs \in [1..n -> BtCloses], sg \in [1..n -> BtSignals], th \in BtThresholds :
        /\ close_arr = cs
        /\ bias5_arr = [k \in 1..n |-> sg[k][1]]
        /\ bias60_arr = [k \in 1..n |-> sg[k][2]]
        /\ rsi_arr = [k \in 1..n |-> sg[k][3]]
        /\ buy_bias_threshold = th[1]
        /\ sell_bias_threshold = th[2]
        /\ bt = BtStart
        /\ bt_i = 0
        /\ bt_pc = "loop"
        /\ bt_result = <<>>

\* lines 45-76: the loop body for bar bt_i (0-based in the code, the model's
\* sequences are 1-based)
BacktestBar ==
    /\ bt_pc = "loop"
    /\ bt_i < Len(close_arr)
    /\ bt' = BtBar(bt, close_arr[bt_i + 1], bias5_arr[bt_i + 1], bias60_arr[bt_i + 1],
                   rsi_arr[bt_i + 1], buy_bias_threshold, sell_bias_threshold)
    /\ bt_i' = bt_i + 1
    /\ UNCHANGED <<close_arr, bias5_arr, bias60_arr, rsi_arr,
                   buy_bias_threshold, sell_bias_threshold, bt_pc, bt_result>>
    /\ UNCHANGED <<gridVars, storeVars, runVars, mainVars, sigVars, trigVars>>

\* lines 78-83: after the loop
BacktestReturn ==
    /\ bt_pc = "loop"
    /\ bt_i = Len(close_arr)
    /\ bt_result' = [ret |-> ReturnPct(FinalValue(bt, close_arr)),
                     trades |-> bt.trade_count, wins |-> bt.win_count]
    /\ bt_pc' = "done"
    /\ UNCHANGED <<close_arr, bias5_arr, bias60_arr, rsi_arr,
                   buy_bias_threshold, sell_bias_threshold, bt, bt_i>>
    /\ UNCHANGED <<gridVars, storeVars, runVars, mainVars, sigVars, trigVars>>

(***************************************************************************)
(* _worker_optimize_stock: the grid search (lines 146-189)                 *)
(***************************************************************************)
\* STRAT_BUY_RANGE = (-0.1, 0.101, 0.002), STRAT_SELL_RANGE = (0.00, 0.151, 0.002):
\* start and step in 1/BiasScale; the model's grid keeps the first
\* GridBuyCells and GridSellCells values of each range
STRAT_BUY_START == -1000
STRAT_SELL_START == 0
STRAT_GRID_STEP == 20
GridBuyCells == 2
GridSellCells == 2
\* longest window handed to the grid search
MaxGridBars == 8

\* lines 162-163: np.arange(start, stop, step)
buy_range == [k \in 1..GridBuyCells |-> STRAT_BUY_START + (k - 1) * STRAT_GRID_STEP]
sell_range == [k \in 1..GridSellCells |-> STRAT_SELL_START + (k - 1) * STRAT_GRID_STEP]

\* lines 165-166: the c-th cell of "for b in buy_range: for s in sell_range"
NumCells == GridBuyCells * GridSellCells
CellBuy(c) == buy_range[((c - 1) \div GridSellCells) + 1]
CellSell(c) == sell_range[((c - 1) % GridSellCells) + 1]

\* Python's round(x, d) on a value counted in 1/q of the rounding step:
\* to the nearest step, halves to the even one
RoundTo(x, q) ==
    LET f == x \div q
        r == x % q
    IN IF 2 * r < q THEN f * q
       ELSE IF 2 * r > q THEN (f + 1) * q
       ELSE IF f % 2 = 0 THEN f * q ELSE (f + 1) * q

\* round(ret, 2): a percentage in 1/PctScale, rounded to 1/100 of a percent
Round2(pct) == RoundTo(pct, PctScale \div 100)

\* round(b * 100, 1): a threshold in 1/BiasScale, as a percentage in tenths
ThresholdPct(b) == RoundTo(b * 1000, BiasScale) \div BiasScale

\* round(wins / trades * 100, 1), in tenths of a percent
WinRate(wins, trades) ==
    IF trades > 0 THEN RoundTo((wins * 1000 * 10) \div trades, 10) \div 10 ELSE 0

\* the sentinel -999 of line 156
NoReturn == -999 * PctScale

\* lines 151-153
BenchmarkReturn(closes, benchmark_cost) ==
    IF benchmark_cost > 0
    THEN ((closes[Len(closes)] - benchmark_cost) * 100 * PctScale) \div benchmark_cost
    ELSE 0

\* lines 155-160
BestStart(closes, benchmark_cost) ==
    [total_return |-> NoReturn,
     benchmark_return |-> Round2(BenchmarkReturn(closes, benchmark_cost)),
     params |-> [buy_ma60_bias |-> 0, sell_ma5_bias |-> 0],
     metrics |-> [win_rate |-> 0, trades |-> 0]]

\* line 175 left out: no cell is skipped
TooFewTrades_Never(trades) == FALSE
\* line 175: the cell is skipped
TooFewTrades(trades) == trades < MIN_STRAT_TRADES

\* line 177: the cell replaces the running best
Improves(ret, best) == ret > best.total_return

\* lines 179-186
BestUpdate(best, r, b, s) ==
    [best EXCEPT !.total_return = Round2(r.ret),
                 !.params = [buy_ma60_bias |-> ThresholdPct(b),
                             sell_ma5_bias |-> ThresholdPct(s)],
                 !.metrics = [win_rate |-> WinRate(r.wins, r.trades),
                              trades |-> r.trades]]

\* lines 168-186: the body of the loops for one cell
GridCell(best, closes, b5s, b60s, rsis, b, s) ==
    LET r == backtest_numba(closes, b5s, b60s, rsis, b, s)
    IN IF TooFewTrades(r.trades) THEN best
       ELSE IF Improves(r.ret, best) THEN BestUpdate(best, r, b, s)
       ELSE best

\* lines 188-189; the code and the name of the stock are left out of the result
WorkerResult(best) ==
    IF best.total_return = NoReturn THEN None ELSE Some(best)

\* lines 165-186 as a function: best_result after the first c cells
RECURSIVE BestAfter(_, _, _, _, _, _)
BestAfter(c, closes, b5s, b60s, rsis, benchmark_cost) ==
    IF c = 0 THEN BestStart(closes, benchmark_cost)
    ELSE GridCell(BestAfter(c - 1, closes, b5s, b60s, rsis, benchmark_cost),
                  closes, b5s, b60s, rsis, CellBuy(c), CellSell(c))

\* lines 144-189 as a function of the window's arrays
GridSearch(closes, b5s, b60s, rsis, benchmark_cost) ==
    IF Len(closes) = 0 THEN None
    ELSE WorkerResult(BestAfter(NumCells, closes, b5s, b60s, rsis, benchmark_cost))

(***************************************************************************)
(* Inputs of the grid specification                                        *)
(***************************************************************************)
\* bars of a window: an entry signal for every buy threshold of the grid, an
\* entry signal for the second buy threshold only, an exit signal for every
\* sell threshold at a clearly higher close, an exit signal for the first
\* sell threshold only, one tick above the entry close
GridBars ==
    { [close |-> 250, b5 |-> -10, b60 |-> -1000, rsi |-> 30],
      [close |-> 250, b5 |-> -10, b60 |-> -980, rsi |-> 30],
      [close |-> 260, b5 |-> 20, b60 |-> 0, rsi |-> 50],
      [close |-> 251, b5 |-> 0, b60 |-> 0, rsi |-> 50] }
GridBenchmarkCosts == {250}

GridIdle ==
    /\ w_close_arr = <<>> /\ w_bias_short_arr = <<>> /\ w_bias_long_arr = <<>>
    /\ w_rsi_arr = <<>> /\ w_benchmark_cost = 0
    /\ best_result = None /\ w_cell = 0 /\ w_pc = "idle" /\ w_return = None
    /\ held = None /\ w_years = 0 /\ w_start_idx = 0

GridInit ==
    \E n \in 0..MaxGridBars :
      \E bs \in [1..n -> GridBars], bc \in GridBenchmarkCosts :
        /\ w_close_arr = [k \in 1..n |-> bs[k].close]
        /\ w_bias_short_arr = [k \in 1..n |-> bs[k].b5]
        /\ w_bias_long_arr = [k \in 1..n |-> bs[k].b60]
        /\ w_rsi_arr = [k \in 1..n |-> bs[k].rsi]
        /\ w_benchmark_cost = bc
        /\ best_result = None
        /\ w_cell = 0
        /\ w_pc = "slice"
        /\ w_return = None
        /\ held = None
        /\ w_years = 0
        /\ w_start_idx = 0

\* line 144: an empty window returns None
WorkerEmpty ==
    /\ w_pc = "slice"
    /\ Len(w_close_arr) = 0
    /\ w_return' = None
    /\ w_pc' = "done"
    /\ UNCHANGED <<w_close_arr, w_bias_short_arr, w_bias_long_arr, w_rsi_arr,
                   w_benchmark_cost, best_result, w_cell, held>>
    /\ UNCHANGED <<w_years, w_start_idx>>
    /\ UNCHANGED <<btVars, storeVars, runVars, mainVars, sigVars, trigVars>>

\* lines 146-163: the arrays, the benchmark return and the initial best_result
WorkerPrepare ==
    /\ w_pc = "slice"
    /\ Len(w_close_arr) > 0
    /\ best_result' = BestStart(w_close_arr, w_benchmark_cost)
    /\ w_pc' = "grid"
    /\ UNCHANGED <<w_close_arr, w_bias_short_arr, w_bias_long_arr, w_rsi_arr,
                   w_benchmark_cost, w_cell, w_return, held>>
    /\ UNCHANGED <<w_years, w_start_idx>>
    /\ UNCHANGED <<btVars, storeVars, runVars, mainVars, sigVars, trigVars>>

\* lines 165-186: the next cell of the grid
WorkerCell ==
    /\ w_pc = "grid"
    /\ w_cell < NumCells
    /\ LET c == w_cell + 1
           r == backtest_numba(w_close_arr, w_bias_short_arr, w_bias_long_arr,
                               w_rsi_arr, CellBuy(c), CellSell(c))
           nb == GridCell(best_result, w_close_arr, w_bias_short_arr,
                          w_bias_long_arr, w_rsi_arr, CellBuy(c), CellSell(c))
       IN /\ best_result' = nb
          /\ held' = IF nb # best_result THEN Some([cell |-> c, ret |-> r.ret]) ELSE held
          /\ w_cell' = c
    /\ UNCHANGED <<w_close_arr, w_bias_short_arr, w_bias_long_arr, w_rsi_arr,
                   w_benchmark_cost, w_pc, w_return>>
    /\ UNCHANGED <<w_years, w_start_idx>>
    /\ UNCHANGED <<btVars, storeVars, runVars, mainVars, sigVars, trigVars>>

\* lines 188-189
WorkerReturn ==
    /\ w_pc = "grid"
    /\ w_cell = NumCells
    /\ w_return' = WorkerResult(best_result)
    /\ w_pc' = "done"
    /\ UNCHANGED <<w_close_arr, w_bias_short_arr, w_bias_long_arr, w_rsi_arr,
                   w_benchmark_cost, best_result, w_cell, held>>
    /\ UNCHANGED <<w_years, w_start_idx>>
    /\ UNCHANGED <<btVars, storeVars, runVars, mainVars, sigVars, trigVars>>

(***************************************************************************)
(* AnalysisService._analyze_single_stock                                   *)
(*                                                                         *)
(* A history (qfq_history) is a sequence of bars [date, close, volume] in   *)
(* ascending date order; a date is a day number.  Closes are               *)
(* powers of two, so that log(close) is exact: the regression works on     *)
(* log2(close), which changes the slope by the factor ln 2 and leaves r^2  *)
(* as it is.  Time is scaled: a calendar year has YearDays days, and the   *)
(* window lengths of the moving averages are scaled with it.               *)
(***************************************************************************)
\* StrategyConfig, lines 31-35: percent, percent, percent, HKD millions,
\* HKD thousand millions
MIN_R_SQUARED == 80
MIN_ANNUAL_RETURN == 10
MAX_ANNUAL_RETURN == 150
MIN_TURNOVER == 50
MIN_MARKET_CAP == 10

\* scaled: pd.DateOffset(years=1) in days (365 or 366)
YearDays == 2
\* scaled: the 30 days of line 464
CoverageDays == 0
\* scaled: TREND_MA_SHORT = 50, TREND_MA_LONG = 250, TREND_BREAK_CHECK_DAYS = 270,
\* the 20 of df.iloc[-20], the 5 of _check_ma_interruption,
\* MIN_REGRESSION_SAMPLES = 20
TREND_MA_SHORT == 1
TREND_MA_LONG == 2
TREND_BREAK_CHECK_DAYS == 3
TrendBreakLookback == 2
InterruptionRun == 2
MIN_REGRESSION_SAMPLES == 2
\* longest history of the classifier specification
MaxHistory == 5
\* the clock stops here
MaxClock == 2

RECURSIVE SeqSum(_)
SeqSum(s) == IF Len(s) = 0 THEN 0 ELSE Head(s) + SeqSum(Tail(s))

\* np.log on the closes of the model, in units of ln 2
Log2Close(c) == CASE c = 1 -> 0 [] c = 2 -> 1 [] c = 4 -> 2 [] c = 8 -> 3

\* log2(1 + pct / 100) in 1/10000, for the two bounds of the annual return:
\* (exp(slope) - 1) * 100 >= pct  iff  slope / ln 2 >= log2(1 + pct / 100)
Log2Growth(pct) == CASE pct = 10 -> 1375 [] pct = 150 -> 13219

\* df['close'].rolling(window=w).mean() at row k: the sum of the window, and
\* whether the mean is a number (not NaN)
RollValid(df, k, w) == k >= w
RollSum(df, k, w) == SeqSum([j \in 1..w |-> df[k - w + j].close])

\* the circuit breaker left out
TrendBroken_Never(df) == FALSE
\* lines 443-447: the trend-break circuit breaker
TrendBroken(df) ==
    /\ Len(df) > TREND_BREAK_CHECK_DAYS
    /\ LET curr == Len(df)
           prev_20 == Len(df) - TrendBreakLookback + 1
       IN /\ RollValid(df, curr, TREND_MA_SHORT)
          /\ RollValid(df, curr, TREND_MA_LONG)
          /\ RollSum(df, curr, TREND_MA_SHORT) * TREND_MA_LONG
                < RollSum(df, curr, TREND_MA_LONG) * TREND_MA_SHORT
          /\ RollValid(df, prev_20, TREND_MA_LONG)
          /\ RollSum(df, curr, TREND_MA_LONG) < RollSum(df, prev_20, TREND_MA_LONG)

\* lines 456-461: the rows with date >= latest_date - year years; the input is
\* in ascending date order, so they are the rows from WindowStart on
TargetStart(df, year) == df[Len(df)].date - year * YearDays
WindowRows(df, year) == {k \in 1..Len(df) : df[k].date >= TargetStart(df, year)}
WindowStart(df, year) == CHOOSE k \in WindowRows(df, year) :
                            \A j \in WindowRows(df, year) : k <= j

\* lines 498-505: _check_ma_interruption on the rows from first on. The rows
\* with a valid long average are those from max(first, TREND_MA_LONG) on;
\* the longest run of closes below the average is compared with the limit
IsBelow(df, k) == df[k].close * TREND_MA_LONG < RollSum(df, k, TREND_MA_LONG)
RECURSIVE RunEndingAt(_, _, _)
RunEndingAt(df, k, lo) ==
    IF k < lo \/ ~IsBelow(df, k) THEN 0 ELSE 1 + RunEndingAt(df, k - 1, lo)
CheckMaInterruption_Strict(df, first) ==
    LET lo == IF first >= TREND_MA_LONG THEN first ELSE TREND_MA_LONG
    IN IF lo > Len(df) THEN TRUE
       ELSE \E k \in lo..Len(df) : RunEndingAt(df, k, lo) > InterruptionRun
CheckMaInterruption(df, first) ==
    LET lo == IF first >= TREND_MA_LONG THEN first ELSE TREND_MA_LONG
    IN IF lo > Len(df) THEN TRUE
       ELSE \E k \in lo..Len(df) : RunEndingAt(df, k, lo) >= InterruptionRun

\* lines 469-478: the sums of scipy.stats.linregress over the rows from first
\* on, x in days since the first row, y in units of ln 2
RegressionSums(df, first) ==
    LET n == Len(df) - first + 1
        xs == [j \in 1..n |-> df[first + j - 1].date - df[first].date]
        ys == [j \in 1..n |-> Log2Close(df[first + j - 1].close)]
        sx == SeqSum(xs)
        sy == SeqSum(ys)
    IN [n |-> n,
        ssxm |-> n * SeqSum([j \in 1..n |-> xs[j] * xs[j]]) - sx * sx,
        ssym |-> n * SeqSum([j \in 1..n |-> ys[j] * ys[j]]) - sy * sy,
        ssxym |-> n * SeqSum([j \in 1..n |-> xs[j] * ys[j]]) - sx * sy]


\* line 464: the window starts more than 30 days after its target start
CoverageMissing(df, year) ==
    df[WindowStart(df, year)].date - TargetStart(df, year) > CoverageDays

\* lines 435-438, 465: the mean of close * volume over the window is below the floor
TurnoverSum(df, first) ==
    SeqSum([j \in 1..(Len(df) - first + 1) |->
              df[first + j - 1].close * df[first + j - 1].volume])
TurnoverLow(df, first) ==
    TurnoverSum(df, first) < MIN_TURNOVER * (Len(df) - first + 1)

\* line 470
TooFewSamples(df, first) ==
    \/ Len(df) - first + 1 < MIN_REGRESSION_SAMPLES
    \/ \E k \in first..Len(df) : df[k].close <= 0

\* lines 476-481: r2 >= MIN_R_SQUARED, slope > 0 and the annual return within
\* its bounds. linregress gives r = 0 for a constant y.
RegressionPasses(df, first) ==
    LET r == RegressionSums(df, first)
    IN /\ r.ssym > 0
       /\ 100 * r.ssxym * r.ssxym >= MIN_R_SQUARED * r.ssxm * r.ssym
       /\ r.ssxym > 0
       /\ r.ssxym * YearDays * 10000 >= Log2Growth(MIN_ANNUAL_RETURN) * r.ssxm
       /\ r.ssxym * YearDays * 10000 <= Log2Growth(MAX_ANNUAL_RETURN) * r.ssxm

\* lines 456-481: the window of `year` years passes every gate
WindowQualifies(df, year) ==
    /\ WindowRows(df, year) # {}
    /\ ~CoverageMissing(df, year)
    /\ ~TurnoverLow(df, WindowStart(df, year))
    /\ ~CheckMaInterruption(df, WindowStart(df, year))
    /\ ~TooFewSamples(df, WindowStart(df, year))
    /\ RegressionPasses(df, WindowStart(df, year))

\* the loop of line 455 running from the shortest window to the longest
YearOrder_Ascending == <<1, 2, 3, 4, 5>>
\* line 455: the years in the order of the loop
YearOrder == <<5, 4, 3, 2, 1>>

\* lines 455-491: the position in YearOrder of the first year, from position p
\* on, whose window qualifies; 0 when the loop ends without a break
RECURSIVE FirstQualifying(_, _)
FirstQualifying(df, p) ==
    IF p > Len(YearOrder) THEN 0
    ELSE IF WindowQualifies(df, YearOrder[p]) THEN p
    ELSE FirstQualifying(df, p + 1)

\* str(year) in the f-string of line 482
YearStr(year) ==
    CASE year = 1 -> "1" [] year = 2 -> "2" [] year = 3 -> "3"
      [] year = 4 -> "4" [] year = 5 -> "5"

\* line 482: the label, as the sequence of its parts (the prefix, the digits
\* of the year, the suffix)
BullLabel(year) == <<"bull", YearStr(year), "y">>
\* a bull_label that is present and null (main.py line 225 stores None)
Null == <<"null">>

\* the slope left per day
TrendData_PerDay(df, year, at) ==
    LET first == WindowStart(df, year)
        r == RegressionSums(df, first)
    IN [r_squared |-> (r.ssxym * r.ssxym * 100) \div (r.ssxm * r.ssym),
        slope |-> (r.ssxym * 10000) \div r.ssxm,
        period_years |-> year,
        avg_turnover |-> TurnoverSum(df, first) \div (Len(df) - first + 1),
        updated_at |-> at]

\* lines 483-490: trend_data; r_squared in 1/100, slope in 1/10000 of ln 2
\* per year. annual_return_pct = (exp(slope) - 1) * 100 is a function of slope
\* alone and is not kept.
TrendData(df, year, at) ==
    LET first == WindowStart(df, year)
        r == RegressionSums(df, first)
    IN [r_squared |-> (r.ssxym * r.ssxym * 100) \div (r.ssxm * r.ssym),
        slope |-> (r.ssxym * YearDays * 10000) \div r.ssxm,
        period_years |-> year,
        avg_turnover |-> TurnoverSum(df, first) \div (Len(df) - first + 1),
        updated_at |-> at]

\* the pre-gates without the ROE test
PreGateRejects_NoRoe(latest) ==
    latest.mcap = None \/ latest.mcap[1] < MIN_MARKET_CAP
\* line 418: the pre-gates reject the stock
PreGateRejects(latest) ==
    \/ latest.mcap = None \/ latest.mcap[1] < MIN_MARKET_CAP
    \/ latest.roe = None \/ latest.roe[1] <= 0

\* lines 412-496: what _analyze_single_stock does to the stored record of the
\* stock. fetched is what ak.stock_hk_daily gives when the record holds no
\* history (the empty sequence when the call fails or returns nothing).
\* "unset" removes bull_label and trend_analysis, "set" writes both, "return"
\* leaves the record as it is. stage is the place the call returns from: the
\* pre-gates (line 420), the missing history (line 429), the circuit breaker
\* (line 449) or the end, after the loop over the windows (lines 493-496).
AnalyzeSingleStock(doc, fetched, at) ==
    IF PreGateRejects(doc.latest_data) THEN [op |-> "unset", stage |-> "pregate"]
    ELSE LET df == IF Len(doc.qfq_history) > 0 THEN doc.qfq_history ELSE fetched
         IN IF Len(df) = 0 THEN [op |-> "return", stage |-> "nodata"]
            ELSE IF TrendBroken(df) THEN [op |-> "unset", stage |-> "breaker"]
            ELSE LET p == FirstQualifying(df, 1)
                 IN IF p = 0 THEN [op |-> "unset", stage |-> "windows"]
                    ELSE [op |-> "set", stage |-> "windows",
                          bull_label |-> BullLabel(YearOrder[p]),
                          trend_analysis |-> TrendData(df, YearOrder[p], at)]

\* a call that removes the old label before it raises
UpdateOne_PartialOnRaise(doc, effect) ==
    IF effect.op = "unset"
    THEN [doc EXCEPT !.bull_label = None, !.trend_analysis = None]
    ELSE IF effect.op = "set"
    THEN [doc EXCEPT !.bull_label = Some(effect.bull_label),
                     !.trend_analysis = Some(effect.trend_analysis)]
    ELSE IF effect.op = "raise"
    THEN [doc EXCEPT !.bull_label = None]
    ELSE doc
\* collection.update_one with $unset or $set, lines 419, 448, 494, 496; a
\* call that returns at line 429 or raises writes nothing
UpdateOne(doc, effect) ==
    IF effect.op = "unset"
    THEN [doc EXCEPT !.bull_label = None, !.trend_analysis = None]
    ELSE IF effect.op = "set"
    THEN [doc EXCEPT !.bull_label = Some(effect.bull_label),
                     !.trend_analysis = Some(effect.trend_analysis)]
    ELSE doc

\* a call of _analyze_single_stock on the stored record of code
AnalyzeCall(code, fetched) ==
    /\ collection' = [collection EXCEPT ![code] =
                        UpdateOne(@, AnalyzeSingleStock(@, fetched, now))]
    /\ analyzed' = Some([code |-> code, fetched |-> fetched,
                          stage |-> AnalyzeSingleStock(collection[code], fetched, now).stage])

(***************************************************************************)
(* Inputs of the classifier specification                                  *)
(***************************************************************************)
\* a stock code, as the sequence of its digits
TheCode == <<0, 1>>

HistCloses == {1, 2, 4}
HistGaps == {1, 3}
HistVolumes == {25, 50}

\* the histories of n bars: the first date is 0, the gaps between dates are
\* in HistGaps, the closes in HistCloses, the volume is one value of
\* HistVolumes throughout
HistoriesOf(n) ==
    { [k \in 1..n |-> [date |-> SeqSum([j \in 1..(k - 1) |-> g[j + 1]]),
                       close |-> c[k], volume |-> v]] :
        g \in [2..n -> HistGaps], c \in [1..n -> HistCloses], v \in HistVolumes }

\* latest_data: passing both pre-gates, no market cap, a market cap below
\* the floor, a non-positive ROE
OkLatest == [mcap |-> Some(MIN_MARKET_CAP), roe |-> Some(5)]
LatestChoices ==
    { OkLatest,
      [mcap |-> None, roe |-> Some(5)],
      [mcap |-> Some(MIN_MARKET_CAP - 1), roe |-> Some(5)],
      [mcap |-> Some(MIN_MARKET_CAP), roe |-> Some(0)] }

\* what an earlier run may have stored
OldTrend == [r_squared |-> 90, slope |-> 5000, period_years |-> 1,
             avg_turnover |-> 100, updated_at |-> 0]
OldStrategy ==
    [total_return |-> 10000, benchmark_return |-> 0,
     params |-> [buy_ma60_bias |-> -100, sell_ma5_bias |-> 0],
     metrics |-> [win_rate |-> 1000, trades |-> 3]]

Doc(latest, history, label, trend, strategy) ==
    [latest_data |-> latest, qfq_history |-> history, bull_label |-> label,
     trend_analysis |-> trend, ma_strategy |-> strategy]

\* what ak.stock_hk_daily may return for a stock without stored history
FetchChoices == {<<>>} \cup HistoriesOf(1)

StoreIdle == collection = <<>> /\ now = 0 /\ analyzed = None

\* a history whose 2-year window passes every gate, one whose close
\* doubles every year (DoublingHistory), and one that trips the
\* circuit breaker (the latest close falls below the long average, which
\* falls too) although its 4-year window passes every gate
RisingHistory ==
    [k \in 1..5 |-> [date |-> k - 1, close |-> <<1, 2, 2, 4, 4>>[k], volume |-> 50]]
DoublingHistory ==
    [k \in 1..4 |-> [date |-> 2 * (k - 1), close |-> <<1, 2, 4, 8>>[k],
                     volume |-> 50]]
DippingHistory ==
    [k \in 1..7 |-> [date |-> <<0, 1, 2, 3, 6, 7, 8>>[k],
                     close |-> <<1, 1, 2, 2, 8, 8, 4>>[k], volume |-> 50]]

\* one stock, with every history of up to MaxHistory bars or the dipping
\* one; the pre-gate rejections are combined with the short histories and
\* with the two histories above
ClassifyInit ==
    /\ \E n \in 0..MaxHistory :
         \E h \in HistoriesOf(n) \cup {DippingHistory, DoublingHistory},
            l \in LatestChoices, labelled \in BOOLEAN :
           /\ l = OkLatest \/ Len(h) <= 1 \/ h \in {RisingHistory, DippingHistory, DoublingHistory}
           /\ collection = (TheCode :> Doc(l, h,
                               IF labelled THEN Some(BullLabel(1)) ELSE None,
                               IF labelled THEN Some(OldTrend) ELSE None, None))
    /\ now = 1
    /\ analyzed = None

\* _analyze_single_stock on the stock
AnalyzeStock ==
    /\ now <= MaxClock
    /\ \E fetched \in FetchChoices :
         /\ Len(collection[TheCode].qfq_history) = 0 \/ fetched = <<>>
         /\ AnalyzeCall(TheCode, fetched)
    /\ now' = now + 1
    /\ UNCHANGED <<btVars, gridVars, runVars, mainVars, sigVars, trigVars>>

(***************************************************************************)
(* CrawlerStatus (message and last_finished_time are left out)             *)
(***************************************************************************)
StatusInit ==
    [is_running |-> FALSE, should_stop |-> FALSE, current |-> 0, total |-> 0]
StatusStart(total) ==
    [is_running |-> TRUE, should_stop |-> FALSE, current |-> 0, total |-> total]
StatusRequestStop(st) == [st EXCEPT !.should_stop = TRUE]
StatusUpdate(st, current) == [st EXCEPT !.current = current]
StatusFinish(st) == [st EXCEPT !.is_running = FALSE, !.should_stop = FALSE]

RunIdle ==
    /\ status = StatusInit /\ task = "idle"
    /\ all_basic_docs = <<>> /\ trend_i = 0
    /\ target_stocks = <<>> /\ pool = <<>> /\ hung = {} /\ res_i = 0
    /\ opt_pc = "idle"
    /\ runs = 0 /\ updates = 0
    /\ last_exit = "none" /\ no_params = {}
    /\ trend_pc = "check" /\ stop_point = None /\ trend_raised = {}
    /\ before = <<>>

(***************************************************************************)
(* _worker_optimize_stock and the caller's use of its result               *)
(***************************************************************************)
\* lines 92-96: "5年" in bull_label, on the parts of the label
HasYear(label, digits) ==
    \E k \in 1..(Len(label) - 1) : label[k] = digits /\ label[k + 1] = "y"
YearsOf(label) ==
    IF HasYear(label, "5") THEN 5
    ELSE IF HasYear(label, "4") THEN 4
    ELSE IF HasYear(label, "3") THEN 3
    ELSE IF HasYear(label, "2") THEN 2
    ELSE IF HasYear(label, "1") THEN 1
    ELSE 0

\* a result written without its metrics
ApplyResult_Partial(coll, code, res) ==
    IF res # None
    THEN [coll EXCEPT ![code].ma_strategy =
            Some([res[1] EXCEPT !.metrics = [win_rate |-> 0, trades |-> 0]])]
    ELSE coll
\* lines 249-252: if res, $set ma_strategy
ApplyResult(coll, code, res) ==
    IF res # None THEN [coll EXCEPT ![code].ma_strategy = Some(res[1])] ELSE coll

\* the record of the stock the grid specification works on: labelled, with
\* history, without stored strategy
GridStoreInit ==
    /\ collection = (TheCode :> Doc(OkLatest,
                                    <<[date |-> 0, close |-> 1, volume |-> 50]>>,
                                    Some(BullLabel(5)), Some(OldTrend), None))
    /\ now = 1
    /\ analyzed = None

\* lines 248-252: optimize_strategies takes the value the worker returned
WorkerApplied ==
    /\ w_pc = "done"
    /\ collection' = ApplyResult(collection, TheCode, w_return)
    /\ w_pc' = "applied"
    /\ UNCHANGED <<w_close_arr, w_bias_short_arr, w_bias_long_arr, w_rsi_arr,
                   w_benchmark_cost, best_result, w_cell, w_return, held>>
    /\ UNCHANGED <<w_years, w_start_idx>>
    /\ UNCHANGED <<btVars, now, analyzed, runVars, mainVars, sigVars, trigVars>>

(***************************************************************************)
(* _worker_optimize_stock: from the record to the arrays (lines 86-149).   *)
(* A bar of qfq_history is [date, open, close]. Time and the lengths of    *)
(* the indicators are scaled as for the classifier.                        *)
(***************************************************************************)
\* scaled: MA_SHORT_WINDOW = 5, MA_LONG_WINDOW = 60, RSI_PERIOD = 14 and the
\* 100 bars of line 107
MA_SHORT_WINDOW == 2
MA_LONG_WINDOW == 3
RSI_PERIOD == 2
MinWorkerBars == 4
\* longest history of the worker specification
MaxWorkerBars == 6
\* resolution of the smoothed gains and losses of the RSI
EwmScale == 1000

\* a / b truncated toward zero
TruncDiv(a, b) == IF a >= 0 THEN a \div b ELSE -((-a) \div b)

\* line 104: the rows with close > 0.0001, re-indexed
RECURSIVE ValidRows(_)
ValidRows(h) ==
    IF Len(h) = 0 THEN <<>>
    ELSE IF Head(h).close > 0 THEN <<Head(h)>> \o ValidRows(Tail(h))
    ELSE ValidRows(Tail(h))

\* lines 114-116: up and down of row k >= 2
Gain(df, k) ==
    IF df[k].close > df[k - 1].close THEN df[k].close - df[k - 1].close ELSE 0
Loss(df, k) ==
    IF df[k].close < df[k - 1].close THEN df[k - 1].close - df[k].close ELSE 0

\* lines 119-120: ewm(com=RSI_PERIOD - 1, adjust=False).mean(); the first
\* value of the series (the diff of row 1) is NaN, so the average starts at
\* row 2
RECURSIVE MaUp(_, _)
MaUp(df, k) ==
    IF k = 2 THEN Gain(df, 2) * EwmScale
    ELSE ((RSI_PERIOD - 1) * MaUp(df, k - 1) + Gain(df, k) * EwmScale) \div RSI_PERIOD
RECURSIVE MaDown(_, _)
MaDown(df, k) ==
    IF k = 2 THEN Loss(df, 2) * EwmScale
    ELSE ((RSI_PERIOD - 1) * MaDown(df, k - 1) + Loss(df, k) * EwmScale) \div RSI_PERIOD

\* lines 122-124: 100 - 100 / (1 + rs), NaN (row 1, or 0 / 0) filled with 50
Rsi(df, k) ==
    IF k = 1 THEN 50
    ELSE IF MaUp(df, k) + MaDown(df, k) = 0 THEN 50
    ELSE (100 * MaUp(df, k)) \div (MaUp(df, k) + MaDown(df, k))

\* lines 110-111, 127-128: (close - ma) / ma in 1/BiasScale, for a row with
\* a full window
Bias(df, k, w) ==
    TruncDiv((df[k].close * w - RollSum(df, k, w)) * BiasScale, RollSum(df, k, w))

\* lines 130-136: start_idx, the first row with date >= latest_date - years
StartIdx(df, years) == WindowStart(df, years)

\* the close of the first row of the window taken as cost
BenchmarkCost_WindowClose(df, start_idx) == df[start_idx].close
\* lines 138-139
BenchmarkCost(df, start_idx) ==
    IF start_idx > 1 THEN df[start_idx - 1].close ELSE df[start_idx].open

\* lines 141-143: the first row of df_slice that dropna keeps: rows without
\* a full long (or short) window have NaN averages
FirstKept(start_idx) ==
    LET warm == IF MA_LONG_WINDOW >= MA_SHORT_WINDOW
                THEN MA_LONG_WINDOW ELSE MA_SHORT_WINDOW
    IN IF start_idx >= warm THEN start_idx ELSE warm

\* lines 141-149: the arrays handed to the grid search
SliceArrays(df, start_idx) ==
    LET first == FirstKept(start_idx)
        n == IF first > Len(df) THEN 0 ELSE Len(df) - first + 1
    IN [close |-> [j \in 1..n |-> df[first + j - 1].close],
        bias_short |-> [j \in 1..n |-> Bias(df, first + j - 1, MA_SHORT_WINDOW)],
        bias_long |-> [j \in 1..n |-> Bias(df, first + j - 1, MA_LONG_WINDOW)],
        rsi |-> [j \in 1..n |-> Rsi(df, first + j - 1)]]

\* closes and gaps between dates of the histories of the worker
\* specification; the open of every bar is WorkerOpen
WorkerCloses == {200, 250}
WorkerGaps == {1, 2}
WorkerOpen == 225
WorkerHistoriesOf(n) ==
    { [k \in 1..n |-> [date |-> SeqSum([j \in 1..(k - 1) |-> g[j + 1]]),
                       open |-> WorkerOpen, close |-> c[k]]] :
        g \in [2..n -> WorkerGaps], c \in [1..n -> WorkerCloses] }
\* a history with three dips and recoveries after a gap of ten days, and
\* one with a non-positive close
SwingHistory ==
    [k \in 1..10 |-> [date |-> IF k <= 2 THEN k - 1 ELSE 8 + k,
                     open |-> WorkerOpen,
                     close |-> <<250, 250, 200, 250, 250, 200, 250, 250, 200, 250>>[k]]]
GappedHistory ==
    [k \in 1..6 |-> [date |-> k - 1, open |-> WorkerOpen,
                     close |-> <<250, 200, 0, 250, 200, 250>>[k]]]

\* the stored labels: none, null, 1, 2 and 5 years
WorkerLabels == {None, Some(Null), Some(BullLabel(1)), Some(BullLabel(2)),
                 Some(BullLabel(5))}

WorkerStoreInit ==
    /\ \E n \in 0..MaxWorkerBars :
         \E h \in WorkerHistoriesOf(n) \cup {SwingHistory, GappedHistory},
            l \in WorkerLabels :
           collection = (TheCode :> Doc(OkLatest, h, l,
                                        IF l \in {None, Some(Null)}
                                        THEN None ELSE Some(OldTrend), None))
    /\ now = 1
    /\ analyzed = None

WorkerInit ==
    /\ w_close_arr = <<>> /\ w_bias_short_arr = <<>> /\ w_bias_long_arr = <<>>
    /\ w_rsi_arr = <<>> /\ w_benchmark_cost = 0
    /\ best_result = None /\ w_cell = 0 /\ w_pc = "entry" /\ w_return = None
    /\ held = None /\ w_years = 0 /\ w_start_idx = 0

\* lines 87-98: the label is parsed; a null label raises at line 92, no
\* period or no history returns None
WorkerEntry ==
    /\ w_pc = "entry"
    /\ LET doc == collection[TheCode]
           bull_label == IF doc.bull_label = None THEN <<>> ELSE doc.bull_label[1]
       IN IF doc.bull_label = Some(Null)
          THEN w_pc' = "raised" /\ UNCHANGED <<w_years, w_return>>
          ELSE IF YearsOf(bull_label) = 0 \/ Len(doc.qfq_history) = 0
          THEN w_pc' = "done" /\ w_return' = None /\ UNCHANGED w_years
          ELSE w_pc' = "frame" /\ w_years' = YearsOf(bull_label)
                 /\ UNCHANGED w_return
    /\ UNCHANGED <<w_close_arr, w_bias_short_arr, w_bias_long_arr, w_rsi_arr,
                   w_benchmark_cost, best_result, w_cell, held, w_start_idx>>
    /\ UNCHANGED <<btVars, storeVars, runVars, mainVars, sigVars, trigVars>>

\* lines 101-107: fewer than 100 valid rows return None
WorkerTooShort ==
    /\ w_pc = "frame"
    /\ Len(ValidRows(collection[TheCode].qfq_history)) < MinWorkerBars
    /\ w_pc' = "done"
    /\ w_return' = None
    /\ UNCHANGED <<w_close_arr, w_bias_short_arr, w_bias_long_arr, w_rsi_arr,
                   w_benchmark_cost, best_result, w_cell, held, w_years,
                   w_start_idx>>
    /\ UNCHANGED <<btVars, storeVars, runVars, mainVars, sigVars, trigVars>>

\* lines 101-143: the indicators, start_idx, the benchmark cost and the slice
WorkerFrame ==
    /\ w_pc = "frame"
    /\ LET df == ValidRows(collection[TheCode].qfq_history)
       IN /\ Len(df) >= MinWorkerBars
          /\ w_start_idx' = StartIdx(df, w_years)
          /\ w_benchmark_cost' = BenchmarkCost(df, w_start_idx')
          /\ LET a == SliceArrays(df, w_start_idx')
             IN /\ w_close_arr' = a.close
                /\ w_bias_short_arr' = a.bias_short
                /\ w_bias_long_arr' = a.bias_long
                /\ w_rsi_arr' = a.rsi
    /\ w_pc' = "slice"
    /\ UNCHANGED <<best_result, w_cell, w_return, held, w_years>>
    /\ UNCHANGED <<btVars, storeVars, runVars, mainVars, sigVars, trigVars>>

(***************************************************************************)
(* AnalysisService.analyze_trend and optimize_strategies, the stop request *)
(* of the API and the crawler's writes, on a collection of three stocks    *)
(***************************************************************************)
\* the codes in the order the collection returns them; the first one starts
\* with the digit 8
CodeOrder == << <<8, 3>>, <<0, 1>>, <<0, 2>> >>
Codes == {CodeOrder[k] : k \in 1..Len(CodeOrder)}

\* a history whose 5-year window qualifies, and one without qualifying window
GoodHistory ==
    [k \in 1..6 |-> [date |-> 2 * (k - 1),
                     close |-> IF k <= 2 THEN 1 ELSE IF k <= 4 THEN 2 ELSE 4,
                     volume |-> 50]]
FlatHistory == [k \in 1..2 |-> [date |-> k - 1, close |-> 1, volume |-> 50]]
\* a history with the closes of GoodHistory, on which no cell of the grid
\* completes three trades
SteadyHistory == [k \in 1..6 |-> [GoodHistory[k] EXCEPT !.volume = 100]]

\* the windows the preparation hands to the grid search: one on which three
\* round trips complete, one without any signal
TradingWindow ==
    [close |-> <<250, 260, 250, 260, 250, 260>>,
     b5 |-> <<-10, 20, -10, 20, -10, 20>>,
     b60 |-> <<-1000, 0, -1000, 0, -1000, 0>>,
     rsi |-> <<30, 50, 30, 50, 30, 50>>,
     benchmark_cost |-> 250]
QuietWindow ==
    [close |-> <<250, 251>>, b5 |-> <<0, 0>>, b60 |-> <<0, 0>>,
     rsi |-> <<50, 50>>, benchmark_cost |-> 250]
\* lines 101-189 on the two histories of this specification: the window the
\* preparation derives from the history (slicing, moving averages, biases,
\* RSI) and the grid search on it
WindowResult(w) == GridSearch(w.close, w.b5, w.b60, w.rsi, w.benchmark_cost)
TradingResult == WindowResult(TradingWindow)
QuietResult == WindowResult(QuietWindow)
PrepareAndSearch(history) ==
    IF history = GoodHistory THEN TradingResult ELSE QuietResult

\* lines 86-191: the outcome of the call on a record. A null label raises
\* at line 92 (the membership test on None), outside the try block.
WorkerOutcome(doc) ==
    IF doc.bull_label = Some(Null) THEN <<"raised">>
    ELSE LET bull_label == IF doc.bull_label = None THEN <<>> ELSE doc.bull_label[1]
         IN IF YearsOf(bull_label) = 0 \/ Len(doc.qfq_history) = 0
            THEN <<"returned", None>>
            ELSE <<"returned", PrepareAndSearch(doc.qfq_history)>>

\* runs and crawler updates of one behaviour
MaxRuns == 3
MaxUpdates == 1

\* every stock has history and passes the pre-gates; a label is absent or
\* null (main.py line 225 stores None for a stock without qualifying window)
RunInit ==
    /\ \E null \in SUBSET Codes :
         collection = [c \in Codes |->
                         Doc(OkLatest, GoodHistory,
                             IF c \in null THEN Some(Null) ELSE None, None, None)]
    /\ now = 1
    /\ analyzed = None
    /\ RunIdle

\* as RunInit, and the last stock may have the steady history
BatchInit ==
    /\ \E null \in SUBSET Codes, steady \in BOOLEAN :
         collection = [c \in Codes |->
                         Doc(OkLatest,
                             IF steady /\ c = CodeOrder[3]
                             THEN SteadyHistory ELSE GoodHistory,
                             IF c \in null THEN Some(Null) ELSE None, None, None)]
    /\ now = 1
    /\ analyzed = None
    /\ RunIdle

\* crawler_hk.py lines 352-358: the crawler replaces latest_data, and the
\* history when it fetched one
CrawlerUpdate ==
    /\ task = "idle"
    /\ updates < MaxUpdates
    /\ \E c \in Codes, l \in {OkLatest, [mcap |-> None, roe |-> Some(5)]},
          h \in {<<>>, FlatHistory} :
         collection' = [collection EXCEPT
                          ![c].latest_data = l,
                          ![c].qfq_history = IF Len(h) > 0 THEN h ELSE @]
    /\ updates' = updates + 1
    /\ analyzed' = None
    /\ UNCHANGED <<now, status, task, all_basic_docs, trend_i, target_stocks,
                   pool, hung, res_i, opt_pc, runs, last_exit, no_params>>
    /\ UNCHANGED <<trend_pc, stop_point, trend_raised, before>>
    /\ UNCHANGED <<btVars, gridVars, mainVars, sigVars, trigVars>>

\* main.py lines 505-510: the stop endpoint
RequestStop ==
    /\ status.is_running
    /\ ~status.should_stop
    /\ status' = StatusRequestStop(status)
    /\ stop_point' = Some([task |-> task, i |-> trend_i, pc |-> trend_pc])
    /\ UNCHANGED <<task, all_basic_docs, trend_i, target_stocks, pool, hung,
                   res_i, opt_pc, runs, updates, last_exit, no_params>>
    /\ UNCHANGED <<trend_pc, trend_raised, before>>
    /\ UNCHANGED <<btVars, gridVars, storeVars, mainVars, sigVars, trigVars>>

\* analyze_trend, lines 202-211
TrendStart ==
    /\ task = "idle"
    /\ runs < MaxRuns
    /\ all_basic_docs' = CodeOrder
    /\ status' = StatusStart(Len(CodeOrder))
    /\ trend_i' = 1
    /\ task' = "analyze_trend"
    /\ runs' = runs + 1
    /\ now' = now + 1
    /\ trend_pc' = "check"
    /\ stop_point' = None
    /\ trend_raised' = {}
    /\ UNCHANGED <<collection, analyzed, target_stocks, pool, hung, res_i,
                   opt_pc, updates, last_exit, no_params, before>>
    /\ UNCHANGED <<btVars, gridVars, mainVars, sigVars, trigVars>>

\* the stop check of analyze_trend ignored
TrendStopRequested_Never == FALSE
\* line 213: self.status.should_stop
TrendStopRequested == status.should_stop

\* line 213: break on the stop signal; line 232: the method returns
TrendBreak ==
    /\ task = "analyze_trend"
    /\ trend_pc = "check"
    /\ trend_i <= Len(all_basic_docs)
    /\ TrendStopRequested
    /\ task' = "idle"
    /\ last_exit' = "trend"
    /\ UNCHANGED <<status, all_basic_docs, trend_i, target_stocks, pool, hung,
                   res_i, opt_pc, runs, updates, no_params>>
    /\ UNCHANGED <<trend_pc, stop_point, trend_raised, before>>
    /\ UNCHANGED <<btVars, gridVars, storeVars, mainVars, sigVars, trigVars>>

\* lines 216-217: a code starting with 8 is passed over
TrendSkip ==
    /\ task = "analyze_trend"
    /\ trend_pc = "check"
    /\ trend_i <= Len(all_basic_docs)
    /\ ~TrendStopRequested
    /\ all_basic_docs[trend_i][1] = 8
    /\ trend_i' = trend_i + 1
    /\ UNCHANGED <<status, task, all_basic_docs, target_stocks, pool, hung,
                   res_i, opt_pc, runs, updates, last_exit, no_params>>
    /\ UNCHANGED <<trend_pc, stop_point, trend_raised, before>>
    /\ UNCHANGED <<btVars, gridVars, storeVars, mainVars, sigVars, trigVars>>

\* lines 213-221: the stop check passes, the code does not start with 8,
\* status.update
TrendBegin ==
    /\ task = "analyze_trend"
    /\ trend_pc = "check"
    /\ trend_i <= Len(all_basic_docs)
    /\ ~TrendStopRequested
    /\ all_basic_docs[trend_i][1] # 8
    /\ status' = StatusUpdate(status, trend_i)
    /\ trend_pc' = "analyzing"
    /\ UNCHANGED <<task, all_basic_docs, trend_i, target_stocks, pool, hung,
                   res_i, opt_pc, runs, updates, last_exit, no_params>>
    /\ UNCHANGED <<stop_point, trend_raised, before>>
    /\ UNCHANGED <<btVars, gridVars, storeVars, mainVars, sigVars, trigVars>>

\* what may raise inside the try block of lines 223-228: nothing, find_one
\* (line 224), the construction of the data frame and the indicators (lines
\* 431-491, on malformed records), update_one (lines 419, 448, 494, 496)
Faults == {"none", "find_one", "frame", "update_one"}

\* lines 224-227 under a fault: the call raises before anything is written
\* (every path of _analyze_single_stock ends with its only update_one)
AnalyzeOutcome(doc, fetched, at, fault) ==
    LET e == AnalyzeSingleStock(doc, fetched, at)
    IN IF fault = "find_one" THEN [op |-> "raise", stage |-> "find_one"]
       ELSE IF fault = "frame" /\ e.stage \in {"breaker", "windows"}
       THEN [op |-> "raise", stage |-> "frame"]
       ELSE IF fault = "update_one" /\ e.op \in {"set", "unset"}
       THEN [op |-> "raise", stage |-> e.stage]
       ELSE e

\* lines 223-230: find_one and _analyze_single_stock inside the try block
\* (every record of this collection has a history, so nothing is
\* downloaded); an exception is logged and the loop goes on
TrendAnalyze ==
    /\ task = "analyze_trend"
    /\ trend_pc = "analyzing"
    /\ \E fault \in Faults :
         LET code == all_basic_docs[trend_i]
             e == AnalyzeOutcome(collection[code], <<>>, now, fault)
         IN /\ collection' = [collection EXCEPT ![code] = UpdateOne(@, e)]
            /\ analyzed' = Some([code |-> code, fetched |-> <<>>, stage |-> e.stage])
            /\ no_params' =
                 IF e.op = "unset" THEN no_params \cup {code}
                 ELSE IF e.op = "raise" THEN no_params
                 ELSE no_params \ {code}
            /\ trend_raised' =
                 IF e.op = "raise" THEN trend_raised \cup {code} ELSE trend_raised
    /\ trend_pc' = "check"
    /\ trend_i' = trend_i + 1
    /\ UNCHANGED <<now, status, task, all_basic_docs, target_stocks, pool, hung,
                   res_i, opt_pc, runs, updates, last_exit>>
    /\ UNCHANGED <<stop_point, before>>
    /\ UNCHANGED <<btVars, gridVars, mainVars, sigVars, trigVars>>

\* line 232: the loop is exhausted and the method returns
TrendEnd ==
    /\ task = "analyze_trend"
    /\ trend_pc = "check"
    /\ trend_i > Len(all_basic_docs)
    /\ task' = "idle"
    /\ last_exit' = "trend"
    /\ UNCHANGED <<status, all_basic_docs, trend_i, target_stocks, pool, hung,
                   res_i, opt_pc, runs, updates, no_params>>
    /\ UNCHANGED <<trend_pc, stop_point, trend_raised, before>>
    /\ UNCHANGED <<btVars, gridVars, storeVars, mainVars, sigVars, trigVars>>

\* line 237: find({"bull_label": {"$exists": True}}) also matches a null label
RECURSIVE Matching(_, _)
Matching(codes, coll) ==
    IF Len(codes) = 0 THEN <<>>
    ELSE IF coll[Head(codes)].bull_label # None
         THEN <<Head(codes)>> \o Matching(Tail(codes), coll)
         ELSE Matching(Tail(codes), coll)

\* lines 237-240: no target, the method returns
OptEmpty ==
    /\ task = "idle"
    /\ runs < MaxRuns
    /\ Len(Matching(CodeOrder, collection)) = 0
    /\ runs' = runs + 1
    /\ now' = now + 1
    /\ last_exit' = "empty"
    /\ UNCHANGED <<collection, analyzed, status, task, all_basic_docs, trend_i,
                   target_stocks, pool, hung, res_i, opt_pc, updates, no_params>>
    /\ UNCHANGED <<trend_pc, stop_point, trend_raised, before>>
    /\ UNCHANGED <<btVars, gridVars, mainVars, sigVars, trigVars>>

\* lines 237-246: the targets are read and every call is submitted to the
\* pool (pool.map); the calls of hung never complete
OptStart ==
    /\ task = "idle"
    /\ runs < MaxRuns
    /\ Len(Matching(CodeOrder, collection)) > 0
    /\ target_stocks' = Matching(CodeOrder, collection)
    /\ pool' = [k \in 1..Len(target_stocks') |-> <<"pending">>]
    /\ \E h \in SUBSET (1..Len(target_stocks')) :
         /\ Cardinality(h) <= 1
         /\ hung' = h
    /\ res_i' = 1
    /\ opt_pc' = "results"
    /\ task' = "optimize_strategies"
    /\ runs' = runs + 1
    /\ now' = now + 1
    /\ before' = [c \in Codes |-> collection[c].ma_strategy]
    /\ UNCHANGED <<collection, analyzed, status, all_basic_docs, trend_i,
                   updates, last_exit, no_params>>
    /\ UNCHANGED <<trend_pc, stop_point, trend_raised>>
    /\ UNCHANGED <<btVars, gridVars, mainVars, sigVars, trigVars>>

\* a process of the pool runs _worker_optimize_stock on the k-th target
WorkerRun(k) ==
    /\ task = "optimize_strategies"
    /\ k \in 1..Len(pool)
    /\ pool[k] = <<"pending">>
    /\ k \notin hung
    /\ pool' = [pool EXCEPT ![k] = WorkerOutcome(collection[target_stocks[k]])]
    /\ UNCHANGED <<status, task, all_basic_docs, trend_i, target_stocks, hung,
                   res_i, opt_pc, runs, updates, last_exit, no_params>>
    /\ UNCHANGED <<trend_pc, stop_point, trend_raised, before>>
    /\ UNCHANGED <<btVars, gridVars, storeVars, mainVars, sigVars, trigVars>>

\* the next value of the iterator pool.map returned is there
NextResultReady ==
    /\ task = "optimize_strategies"
    /\ opt_pc = "results"
    /\ res_i <= Len(pool)
    /\ pool[res_i] # <<"pending">>

\* line 247: the iterator raises what the call raised; the exception leaves
\* the loop
OptRaise ==
    /\ NextResultReady
    /\ pool[res_i] = <<"raised">>
    /\ opt_pc' = "raising"
    /\ UNCHANGED <<status, task, all_basic_docs, trend_i, target_stocks, pool,
                   hung, res_i, runs, updates, last_exit, no_params>>
    /\ UNCHANGED <<trend_pc, stop_point, trend_raised, before>>
    /\ UNCHANGED <<btVars, gridVars, storeVars, mainVars, sigVars, trigVars>>

\* line 248: break on the stop signal
OptBreak ==
    /\ NextResultReady
    /\ pool[res_i] # <<"raised">>
    /\ status.should_stop
    /\ opt_pc' = "stopping"
    /\ UNCHANGED <<status, task, all_basic_docs, trend_i, target_stocks, pool,
                   hung, res_i, runs, updates, last_exit, no_params>>
    /\ UNCHANGED <<trend_pc, stop_point, trend_raised, before>>
    /\ UNCHANGED <<btVars, gridVars, storeVars, mainVars, sigVars, trigVars>>

\* lines 249-252: a result is written to the record of its stock
OptApply ==
    /\ NextResultReady
    /\ pool[res_i] # <<"raised">>
    /\ ~status.should_stop
    /\ pool[res_i][2] # None
    /\ collection' = ApplyResult(collection, target_stocks[res_i], pool[res_i][2])
    /\ no_params' = no_params \ {target_stocks[res_i]}
    /\ res_i' = res_i + 1
    /\ UNCHANGED <<now, analyzed, status, task, all_basic_docs, trend_i,
                   target_stocks, pool, hung, opt_pc, runs, updates, last_exit>>
    /\ UNCHANGED <<trend_pc, stop_point, trend_raised, before>>
    /\ UNCHANGED <<btVars, gridVars, mainVars, sigVars, trigVars>>

\* line 249: the call returned None, nothing is written
OptNone ==
    /\ NextResultReady
    /\ pool[res_i] # <<"raised">>
    /\ ~status.should_stop
    /\ pool[res_i][2] = None
    /\ no_params' = no_params \cup {target_stocks[res_i]}
    /\ res_i' = res_i + 1
    /\ UNCHANGED <<status, task, all_basic_docs, trend_i, target_stocks, pool,
                   hung, opt_pc, runs, updates, last_exit>>
    /\ UNCHANGED <<trend_pc, stop_point, trend_raised, before>>
    /\ UNCHANGED <<btVars, gridVars, storeVars, mainVars, sigVars, trigVars>>

\* line 247: the iterator is exhausted
OptLoopEnd ==
    /\ task = "optimize_strategies"
    /\ opt_pc = "results"
    /\ res_i > Len(pool)
    /\ opt_pc' = "closing"
    /\ UNCHANGED <<status, task, all_basic_docs, trend_i, target_stocks, pool,
                   hung, res_i, runs, updates, last_exit, no_params>>
    /\ UNCHANGED <<trend_pc, stop_point, trend_raised, before>>
    /\ UNCHANGED <<btVars, gridVars, storeVars, mainVars, sigVars, trigVars>>

\* the with block of line 245 is left once every submitted call has ended
PoolShutDown == \A k \in 1..Len(pool) : pool[k] # <<"pending">>

\* lines 254-255: status.finish
OptFinish ==
    /\ task = "optimize_strategies"
    /\ opt_pc \in {"closing", "stopping"}
    /\ PoolShutDown
    /\ status' = StatusFinish(status)
    /\ task' = "idle"
    /\ opt_pc' = "idle"
    /\ last_exit' = IF opt_pc = "stopping" THEN "stopped" ELSE "finish"
    /\ stop_point' = None
    /\ UNCHANGED <<all_basic_docs, trend_i, target_stocks, pool, hung, res_i,
                   runs, updates, no_params>>
    /\ UNCHANGED <<trend_pc, trend_raised, before>>
    /\ UNCHANGED <<btVars, gridVars, storeVars, mainVars, sigVars, trigVars>>

\* the exception of a call leaves optimize_strategies
OptAbort ==
    /\ task = "optimize_strategies"
    /\ opt_pc = "raising"
    /\ PoolShutDown
    /\ task' = "idle"
    /\ opt_pc' = "idle"
    /\ last_exit' = "raise"
    /\ UNCHANGED <<status, all_basic_docs, trend_i, target_stocks, pool, hung,
                   res_i, runs, updates, no_params>>
    /\ UNCHANGED <<trend_pc, stop_point, trend_raised, before>>
    /\ UNCHANGED <<btVars, gridVars, storeVars, mainVars, sigVars, trigVars>>

(***************************************************************************)
(* analyze_ma_bias.main (lines 324-392)                                    *)
(*                                                                         *)
(* Time is left out: a wait_for of line 361 times out only for a call that *)
(* cannot complete, one that never finishes or one that waits in the queue *)
(* of the pool while every process of the pool is held by a call that      *)
(* never finishes. Every other call finishes before its timeout.           *)
(***************************************************************************)
\* the most processes of the pool (MAX_WORKERS is min(os.cpu_count(), 4))
MaxPoolWorkers == 2
\* the most computations that never finish
MaxHung == 1

\* a result of optimize_single_stock_process
ProcessResult == [OldStrategy EXCEPT !.total_return = 20000]
\* a stored label that names no period
PlainLabel == <<"bull">>

SigIdle ==
    /\ sig_pc = "idle" /\ buy_signals = {} /\ sell_signals = {}
    /\ approach_buy_signals = {} /\ approach_sell_signals = {}

TrigIdle == jobs = <<>>

MainIdle ==
    /\ m_pc = "idle" /\ m_workers = 0 /\ m_stocks = {}
    /\ m_task = <<>> /\ m_res = <<>> /\ m_item = <<>>
    /\ m_hung = {} /\ m_outcome = <<>> /\ m_written = {}

\* the first stock is labelled; the second is labelled or holds a label
\* without period; the third is labelled, unlabelled or holds a null label
MainLabels(c) ==
    IF c = CodeOrder[1] THEN {Some(BullLabel(5))}
    ELSE IF c = CodeOrder[2] THEN {Some(BullLabel(1)), Some(PlainLabel)}
    ELSE {Some(BullLabel(2)), None, Some(Null)}

MainInit ==
    /\ \E l \in [Codes -> {Some(BullLabel(5)), Some(BullLabel(1)), Some(BullLabel(2)),
                            Some(PlainLabel), None, Some(Null)}] :
         /\ \A c \in Codes : l[c] \in MainLabels(c)
         /\ collection = [c \in Codes |->
                            Doc(OkLatest, GoodHistory, l[c], None, None)]
    /\ now = 1
    /\ analyzed = None
    /\ m_pc = "start"
    /\ m_workers \in 1..MaxPoolWorkers
    /\ m_stocks = {}
    /\ m_task = [c \in Codes |-> "none"]
    /\ m_res = [c \in Codes |-> None]
    /\ m_item = [c \in Codes |-> "none"]
    /\ m_hung \in {h \in SUBSET Codes : Cardinality(h) <= MaxHung}
    /\ m_outcome \in [Codes -> {None, Some(ProcessResult)}]
    /\ m_outcome[CodeOrder[1]] # None
    /\ m_written = {}

\* lines 42-49: get_bull_years on the stored label (None when the field is
\* missing or null)
get_bull_years(label) ==
    IF label = None \/ label = Some(Null) THEN 0 ELSE YearsOf(label[1])

\* line 318: clean_non_bull_data removes the history of the stocks without
\* label
CleanNonBull(doc) ==
    IF doc.bull_label = None \/ doc.bull_label = Some(Null)
    THEN [doc EXCEPT !.qfq_history = <<>>] ELSE doc

\* line 340: the query {"bull_label": {"$exists": True, "$ne": None}}
MainQuery(coll) ==
    {c \in DOMAIN coll : coll[c].bull_label # None /\ coll[c].bull_label # Some(Null)}

\* the sem_tasks that hold the semaphore
HoldingSem == {c \in m_stocks : m_task[c] = "waiting"}
\* the calls a process of the pool is working on
RunningItems == {c \in m_stocks : m_item[c] = "running"}
\* the call of c cannot complete
Stuck(c) ==
    \/ m_item[c] = "running" /\ c \in m_hung
    \/ /\ m_item[c] = "queued"
       /\ Cardinality(RunningItems \cap m_hung) = m_workers

\* lines 327-328: the network test fails
MainNoNetwork ==
    /\ m_pc = "start"
    /\ m_pc' = "returned"
    /\ UNCHANGED <<m_workers, m_stocks, m_task, m_res, m_item, m_hung,
                   m_outcome, m_written>>
    /\ UNCHANGED <<btVars, gridVars, storeVars, runVars, sigVars, trigVars>>

\* lines 330-370: the cleaning, the query, the pool and the tasks
MainStart ==
    /\ m_pc = "start"
    /\ \E cleaned \in BOOLEAN :
         collection' = IF cleaned
                       THEN [c \in DOMAIN collection |-> CleanNonBull(collection[c])]
                       ELSE collection
    /\ m_stocks' = MainQuery(collection')
    /\ m_task' = [c \in Codes |-> IF c \in m_stocks' THEN "new" ELSE "none"]
    /\ m_pc' = "loop"
    /\ UNCHANGED <<m_workers, m_res, m_item, m_hung, m_outcome, m_written>>
    /\ UNCHANGED <<now, analyzed>>
    /\ UNCHANGED <<btVars, gridVars, runVars, sigVars, trigVars>>

\* lines 352-358: the task takes the semaphore; without period it returns
\* None, else it submits the call to the pool
TaskAcquire(c) ==
    /\ m_pc = "loop"
    /\ c \in m_stocks /\ m_task[c] = "new"
    /\ Cardinality(HoldingSem) < m_workers
    /\ IF get_bull_years(collection[c].bull_label) = 0
       THEN /\ m_task' = [m_task EXCEPT ![c] = "done"]
            /\ m_res' = [m_res EXCEPT ![c] = None]
            /\ UNCHANGED m_item
       ELSE /\ m_task' = [m_task EXCEPT ![c] = "waiting"]
            /\ m_item' = [m_item EXCEPT ![c] = "queued"]
            /\ UNCHANGED m_res
    /\ UNCHANGED <<m_pc, m_workers, m_stocks, m_hung, m_outcome, m_written>>
    /\ UNCHANGED <<btVars, gridVars, storeVars, runVars, sigVars, trigVars>>

\* a free process of the pool takes the call
ItemStart(c) ==
    /\ c \in m_stocks /\ m_item[c] = "queued"
    /\ Cardinality(RunningItems) < m_workers
    /\ m_item' = [m_item EXCEPT ![c] = "running"]
    /\ UNCHANGED <<m_pc, m_workers, m_stocks, m_task, m_res, m_hung,
                   m_outcome, m_written>>
    /\ UNCHANGED <<btVars, gridVars, storeVars, runVars, sigVars, trigVars>>

\* lines 180-295, 361-362: the call returns; the task, when it still waits,
\* returns the value
ItemFinish(c) ==
    /\ c \in m_stocks /\ m_item[c] = "running"
    /\ c \notin m_hung
    /\ m_item' = [m_item EXCEPT ![c] = "finished"]
    /\ IF m_task[c] = "waiting"
       THEN /\ m_task' = [m_task EXCEPT ![c] = "done"]
            /\ m_res' = [m_res EXCEPT ![c] = m_outcome[c]]
       ELSE UNCHANGED <<m_task, m_res>>
    /\ UNCHANGED <<m_pc, m_workers, m_stocks, m_hung, m_outcome, m_written>>
    /\ UNCHANGED <<btVars, gridVars, storeVars, runVars, sigVars, trigVars>>

\* lines 360-365: wait_for times out; the task returns None and releases
\* the semaphore. A call that has not started is cancelled, a call that
\* runs keeps its process
TaskTimeout(c) ==
    /\ c \in m_stocks /\ m_task[c] = "waiting"
    /\ Stuck(c)
    /\ m_task' = [m_task EXCEPT ![c] = "done"]
    /\ m_res' = [m_res EXCEPT ![c] = None]
    /\ m_item' = [m_item EXCEPT ![c] = IF @ = "queued" THEN "cancelled" ELSE @]
    /\ UNCHANGED <<m_pc, m_workers, m_stocks, m_hung, m_outcome, m_written>>
    /\ UNCHANGED <<btVars, gridVars, storeVars, runVars, sigVars, trigVars>>

\* lines 372-377: the loop takes a finished task and writes its result
MainConsume(c) ==
    /\ m_pc = "loop"
    /\ c \in m_stocks /\ m_task[c] = "done"
    /\ m_task' = [m_task EXCEPT ![c] = "consumed"]
    /\ IF m_res[c] # None
       THEN /\ collection' = [collection EXCEPT ![c].ma_strategy = m_res[c]]
            /\ m_written' = m_written \cup {c}
       ELSE UNCHANGED <<collection, m_written>>
    /\ UNCHANGED <<m_pc, m_workers, m_stocks, m_res, m_item, m_hung, m_outcome>>
    /\ UNCHANGED <<now, analyzed>>
    /\ UNCHANGED <<btVars, gridVars, runVars, sigVars, trigVars>>

\* line 372: every task was taken, the loop ends and main arrives at the end
\* of the with block
MainLoopEnd ==
    /\ m_pc = "loop"
    /\ \A c \in m_stocks : m_task[c] = "consumed"
    /\ m_pc' = "shutdown"
    /\ UNCHANGED <<m_workers, m_stocks, m_task, m_res, m_item, m_hung,
                   m_outcome, m_written>>
    /\ UNCHANGED <<btVars, gridVars, storeVars, runVars, sigVars, trigVars>>

\* lines 348, 391-392: ProcessPoolExecutor.__exit__ is shutdown(wait=True),
\* which returns when no call is pending or running; main returns
PoolExit ==
    /\ m_pc = "shutdown"
    /\ \A c \in m_stocks : m_item[c] \notin {"queued", "running"}
    /\ m_pc' = "returned"
    /\ UNCHANGED <<m_workers, m_stocks, m_task, m_res, m_item, m_hung,
                   m_outcome, m_written>>
    /\ UNCHANGED <<btVars, gridVars, storeVars, runVars, sigVars, trigVars>>

(***************************************************************************)
(* AnalysisService.check_signals_and_notify (lines 257-410)                *)
(*                                                                         *)
(* A percentage computed from prices (bias_5_pct, bias_60_pct) is counted  *)
(* in 1/BiasScale of a percent; a stored threshold (buy_ma60_bias,         *)
(* sell_ma5_bias) is a number of tenths of a percent, as the grid search   *)
(* stores it.  The lists hold the stock instead of the message text.       *)
(***************************************************************************)
\* DingTalkConfig.APPROACH_BUFFER = 0.2, in tenths
APPROACH_BUFFER == 2
\* scaled: the 300 bars of the $slice of line 270 and the 5 days of line 295
HistorySlice == 5
StaleDays == 1

Abs(x) == IF x < 0 THEN -x ELSE x

\* line 270: {"$slice": -300}
LastBars(h, n) == IF Len(h) <= n THEN h ELSE SubSeq(h, Len(h) - n + 1, Len(h))

\* the bias left as a ratio
SigBiasPct_Ratio(df, k, w) ==
    TruncDiv((df[k].close * w - RollSum(df, k, w)) * BiasScale, RollSum(df, k, w))
\* lines 337-338: (close - ma) / ma * 100
SigBiasPct(df, k, w) ==
    TruncDiv((df[k].close * w - RollSum(df, k, w)) * 100 * BiasScale,
             RollSum(df, k, w))

\* line 344: bias_60_pct <= buy_threshold_pct and rsi_curr < RSI_BUY_THRESHOLD
SigBuyTriggered(bias_60_pct, rsi_curr, buy_threshold_pct) ==
    /\ bias_60_pct * 10 <= buy_threshold_pct * BiasScale
    /\ rsi_curr < RSI_BUY_THRESHOLD

\* line 357: (bias_60_pct - buy_threshold_pct)
\*             <= abs(buy_threshold_pct * APPROACH_BUFFER)
SigNearBuy(bias_60_pct, buy_threshold_pct) ==
    (bias_60_pct * 10 - buy_threshold_pct * BiasScale) * 10
        <= Abs(buy_threshold_pct * BiasScale * APPROACH_BUFFER)

\* lines 364-367: cond_sell_normal or cond_sell_early
SigSellTriggered(bias_5_pct, rsi_curr, sell_threshold_pct) ==
    \/ bias_5_pct * 10 >= sell_threshold_pct * BiasScale
    \/ /\ bias_5_pct * 100 >= sell_threshold_pct * BiasScale * RSI_SELL_BIAS_FACTOR
       /\ rsi_curr > RSI_SELL_THRESHOLD

\* line 382: (sell_threshold_pct - bias_5_pct)
\*             <= abs(sell_threshold_pct * APPROACH_BUFFER)
SigNearSell(bias_5_pct, sell_threshold_pct) ==
    (sell_threshold_pct * BiasScale - bias_5_pct * 10) * 10
        <= Abs(sell_threshold_pct * BiasScale * APPROACH_BUFFER)

\* lines 262-266: the query
SignalQuery(doc) ==
    doc.bull_label # None /\ doc.ma_strategy # None /\ Len(doc.qfq_history) > 0

\* lines 270, 288-291: the frame of the last bars
SignalFrame(doc) == LastBars(doc.qfq_history, HistorySlice)

\* lines 281-297: the record is passed over (a threshold is missing, fewer
\* than 60 bars, or the latest bar is more than 5 days old)
SignalSkips(doc, today) ==
    \/ "buy_ma60_bias" \notin DOMAIN doc.ma_strategy[1].params
    \/ "sell_ma5_bias" \notin DOMAIN doc.ma_strategy[1].params
    \/ Len(SignalFrame(doc)) < MA_LONG_WINDOW
    \/ today - SignalFrame(doc)[Len(SignalFrame(doc))].date > StaleDays

\* lines 299-386: the four decisions on the latest bar
SignalReport(doc) ==
    LET df == SignalFrame(doc)
        last == Len(df)
        bias_5_pct == SigBiasPct(df, last, MA_SHORT_WINDOW)
        bias_60_pct == SigBiasPct(df, last, MA_LONG_WINDOW)
        rsi_curr == Rsi(df, last)
        buy_threshold_pct == doc.ma_strategy[1].params.buy_ma60_bias
        sell_threshold_pct == doc.ma_strategy[1].params.sell_ma5_bias
        buy == SigBuyTriggered(bias_60_pct, rsi_curr, buy_threshold_pct)
        sell == SigSellTriggered(bias_5_pct, rsi_curr, sell_threshold_pct)
    IN [buy |-> buy,
        approach_buy |-> ~buy /\ SigNearBuy(bias_60_pct, buy_threshold_pct),
        sell |-> sell,
        approach_sell |-> ~sell /\ SigNearSell(bias_5_pct, sell_threshold_pct)]

\* a series that falls from a spike while the RSI is still high, and one
\* that ticks up after a slump
SpikeHistory ==
    [k \in 1..4 |-> [date |-> k - 1, open |-> WorkerOpen,
                     close |-> <<100, 400, 250, 250>>[k]]]
SlumpHistory ==
    [k \in 1..3 |-> [date |-> k - 1, open |-> WorkerOpen,
                     close |-> <<400, 200, 210>>[k]]]

\* the stored strategies: none, one written by analyze_ma_bias.py (whose
\* buy key is buy_ma20_bias), and the thresholds of every cell of the grid
SignalStrategies ==
    {None, Some([OldStrategy EXCEPT !.params = [buy_ma20_bias |-> -100,
                                                sell_ma5_bias |-> 0]])}
    \cup {Some([OldStrategy EXCEPT
                  !.params = [buy_ma60_bias |-> ThresholdPct(CellBuy(c)),
                              sell_ma5_bias |-> ThresholdPct(CellSell(c))]]) :
            c \in 1..NumCells}

SignalInit ==
    /\ \E n \in 0..MaxWorkerBars :
         \E h \in WorkerHistoriesOf(n) \cup {SpikeHistory, SlumpHistory, GappedHistory},
            st \in SignalStrategies, labelled \in BOOLEAN, late \in BOOLEAN :
           /\ collection = (TheCode :> Doc(OkLatest, h,
                               IF labelled THEN Some(BullLabel(1)) ELSE None,
                               IF labelled THEN Some(OldTrend) ELSE None, st))
           /\ now = (IF Len(h) = 0 THEN 0 ELSE h[Len(h)].date)
                      + (IF late THEN StaleDays + 1 ELSE StaleDays)
    /\ analyzed = None
    /\ sig_pc = "start"
    /\ buy_signals = {} /\ sell_signals = {}
    /\ approach_buy_signals = {} /\ approach_sell_signals = {}

\* lines 262-389: the loop over the cursor, for the one stock
SignalCheck ==
    /\ sig_pc = "start"
    /\ LET doc == collection[TheCode]
       IN IF ~SignalQuery(doc) \/ SignalSkips(doc, now)
          THEN /\ sig_pc' = "skipped"
               /\ UNCHANGED <<buy_signals, sell_signals, approach_buy_signals,
                              approach_sell_signals>>
          ELSE LET r == SignalReport(doc)
               IN /\ sig_pc' = "evaluated"
                  /\ buy_signals' = IF r.buy THEN {TheCode} ELSE {}
                  /\ approach_buy_signals' = IF r.approach_buy THEN {TheCode} ELSE {}
                  /\ sell_signals' = IF r.sell THEN {TheCode} ELSE {}
                  /\ approach_sell_signals' = IF r.approach_sell THEN {TheCode} ELSE {}
    /\ UNCHANGED <<btVars, gridVars, storeVars, runVars, mainVars, trigVars>>

(***************************************************************************)
(* main.py: the trigger endpoints, the scheduled job and the background    *)
(* tasks, on the shared status                                             *)
(***************************************************************************)
\* the most background tasks started
MaxJobs == 3

\* the variables of analyze_trend and optimize_strategies other than status
RunRest == <<task, all_basic_docs, trend_i, target_stocks, pool, hung, res_i,
             opt_pc, runs, updates, last_exit, no_params, trend_pc,
             stop_point, trend_raised, before>>

JobKinds == {"crawl", "recalculate", "trends"}

\* main.py lines 498-503, 512-524: trigger_crawl, trigger_recalculate and
\* trigger_trends hand the task to the scheduler or to the background tasks
\* when status.is_running is False (they answer with a refusal otherwise)
Trigger(kind) ==
    /\ Len(jobs) < MaxJobs
    /\ ~status.is_running
    /\ jobs' = Append(jobs, [kind |-> kind, pc |-> "queued"])
    /\ UNCHANGED <<status, RunRest>>
    /\ UNCHANGED <<btVars, gridVars, storeVars, mainVars, sigVars>>

\* main.py line 265: the scheduler starts dynamic_task_wrapper at the
\* configured time
ScheduledCrawl ==
    /\ Len(jobs) < MaxJobs
    /\ jobs' = Append(jobs, [kind |-> "crawl", pc |-> "queued"])
    /\ UNCHANGED <<status, RunRest>>
    /\ UNCHANGED <<btVars, gridVars, storeVars, mainVars, sigVars>>

\* main.py lines 39-44, 51-53, 147-152: the task begins to execute;
\* dynamic_task_wrapper does nothing when status.is_running is True
JobBegin(j) ==
    /\ j \in DOMAIN jobs /\ jobs[j].pc = "queued"
    /\ jobs' = [jobs EXCEPT ![j].pc =
                  IF jobs[j].kind = "crawl" /\ status.is_running
                  THEN "done" ELSE "pre"]
    /\ UNCHANGED <<status, RunRest>>
    /\ UNCHANGED <<btVars, gridVars, storeVars, mainVars, sigVars>>

\* crawler_hk.py lines 372-374, 384: run_crawler_task returns before
\* status.start (the data are fresh, or a stop was requested)
CrawlReturnsEarly(j) ==
    /\ j \in DOMAIN jobs /\ jobs[j].pc = "pre" /\ jobs[j].kind = "crawl"
    /\ jobs' = [jobs EXCEPT ![j].pc = "done"]
    /\ UNCHANGED <<status, RunRest>>
    /\ UNCHANGED <<btVars, gridVars, storeVars, mainVars, sigVars>>

\* crawler_hk.py lines 405-407: the list of codes cannot be fetched
CrawlInitFails(j) ==
    /\ j \in DOMAIN jobs /\ jobs[j].pc = "pre" /\ jobs[j].kind = "crawl"
    /\ status' = StatusFinish(status)
    /\ jobs' = [jobs EXCEPT ![j].pc = "done"]
    /\ UNCHANGED RunRest
    /\ UNCHANGED <<btVars, gridVars, storeVars, mainVars, sigVars>>

\* crawler_hk.py line 419, main.py lines 54 and 154: status.start
JobStart(j) ==
    /\ j \in DOMAIN jobs /\ jobs[j].pc = "pre"
    /\ status' = StatusStart(Len(CodeOrder))
    /\ jobs' = [jobs EXCEPT ![j].pc = "running"]
    /\ UNCHANGED RunRest
    /\ UNCHANGED <<btVars, gridVars, storeVars, mainVars, sigVars>>

\* crawler_hk.py lines 425-427, 457, 460, main.py lines 58-60, 143,
\* 164-166, 243: the loop ends (at its end, on the stop signal or on an
\* exception) and the task calls status.finish
JobFinish(j) ==
    /\ j \in DOMAIN jobs /\ jobs[j].pc = "running"
    /\ status' = StatusFinish(status)
    /\ jobs' = [jobs EXCEPT ![j].pc = "done"]
    /\ UNCHANGED RunRest
    /\ UNCHANGED <<btVars, gridVars, storeVars, mainVars, sigVars>>

\* main.py lines 505-510: stop_crawl
StopCrawl ==
    /\ status.is_running
    /\ ~status.should_stop
    /\ status' = StatusRequestStop(status)
    /\ UNCHANGED <<jobs, RunRest>>
    /\ UNCHANGED <<btVars, gridVars, storeVars, mainVars, sigVars>>

\* the tasks that are executing
Executing == {j \in DOMAIN jobs : jobs[j].pc \in {"pre", "running"}}

(***************************************************************************)
(* Specifications                                                          *)
(***************************************************************************)
InitBacktest == BtInit /\ GridIdle /\ StoreIdle /\ RunIdle /\ MainIdle /\ SigIdle /\ TrigIdle
NextBacktest == BacktestBar \/ BacktestReturn
SpecBacktest == InitBacktest /\ [][NextBacktest]_vars

InitGrid == BtIdle /\ GridInit /\ GridStoreInit /\ RunIdle /\ MainIdle /\ SigIdle /\ TrigIdle
NextGrid ==
    WorkerEmpty \/ WorkerPrepare \/ WorkerCell \/ WorkerReturn \/ WorkerApplied
SpecGrid == InitGrid /\ [][NextGrid]_vars

InitWorker == BtIdle /\ WorkerInit /\ WorkerStoreInit /\ RunIdle /\ MainIdle /\ SigIdle /\ TrigIdle
NextWorker ==
    \/ WorkerEntry \/ WorkerTooShort \/ WorkerFrame
    \/ WorkerPrepare \/ WorkerCell \/ WorkerReturn \/ WorkerApplied
SpecWorker == InitWorker /\ [][NextWorker]_vars

InitTrigger ==
    BtIdle /\ GridIdle /\ StoreIdle /\ RunIdle /\ MainIdle /\ SigIdle /\ TrigIdle
NextTrigger ==
    \/ \E kind \in JobKinds : Trigger(kind)
    \/ ScheduledCrawl
    \/ StopCrawl
    \/ \E j \in 1..MaxJobs :
         \/ JobBegin(j) \/ CrawlReturnsEarly(j) \/ CrawlInitFails(j)
         \/ JobStart(j) \/ JobFinish(j)
SpecTrigger == InitTrigger /\ [][NextTrigger]_vars

InitSignal == BtIdle /\ GridIdle /\ RunIdle /\ MainIdle /\ TrigIdle /\ SignalInit
NextSignal == SignalCheck
SpecSignal == InitSignal /\ [][NextSignal]_vars

InitMain == BtIdle /\ GridIdle /\ RunIdle /\ MainInit /\ SigIdle /\ TrigIdle
NextMain ==
    \/ MainNoNetwork \/ MainStart \/ MainLoopEnd \/ PoolExit
    \/ \E c \in Codes :
         \/ TaskAcquire(c) \/ ItemStart(c) \/ ItemFinish(c)
         \/ TaskTimeout(c) \/ MainConsume(c)
SpecMain == InitMain /\ [][NextMain]_vars

InitClassify == BtIdle /\ GridIdle /\ ClassifyInit /\ RunIdle /\ MainIdle /\ SigIdle /\ TrigIdle
NextClassify == AnalyzeStock
SpecClassify == InitClassify /\ [][NextClassify]_vars

InitRun == BtIdle /\ GridIdle /\ RunInit /\ MainIdle /\ SigIdle /\ TrigIdle
Driver ==
    \/ TrendStart \/ TrendBreak \/ TrendSkip \/ TrendBegin \/ TrendAnalyze
    \/ TrendEnd
    \/ OptEmpty \/ OptStart \/ OptRaise \/ OptBreak \/ OptApply \/ OptNone
    \/ OptLoopEnd \/ OptFinish \/ OptAbort
NextRun ==
    \/ Driver
    \/ \E k \in 1..Len(CodeOrder) : WorkerRun(k)
    \/ RequestStop
    \/ CrawlerUpdate
SpecRun == InitRun /\ [][NextRun]_vars

\* the two methods and the stop request, without the crawler
NextBatch ==
    \/ Driver
    \/ \E k \in 1..Len(CodeOrder) : WorkerRun(k)
    \/ RequestStop
InitBatch == BtIdle /\ GridIdle /\ BatchInit /\ MainIdle /\ SigIdle /\ TrigIdle
SpecBatch == InitBatch /\ [][NextBatch]_vars

\* once optimize_strategies has started, its thread keeps running, and so
\* does every call of the pool that is not one of those that never complete
OptimizeThread ==
    OptRaise \/ OptBreak \/ OptApply \/ OptNone \/ OptLoopEnd \/ OptFinish \/ OptAbort
SpecRunFair ==
    /\ InitRun /\ [][NextRun]_vars
    /\ WF_vars(OptimizeThread)
    /\ \A k \in 1..Len(CodeOrder) : WF_vars(WorkerRun(k))

(***************************************************************************)
(* backtest_numba: claims                                                  *)
(***************************************************************************)
C7_Counts ==
    /\ bt.trade_count = bt.exits
    /\ bt.entries - bt.exits = (IF bt.in_market THEN 1 ELSE 0)

C7_Step ==
    /\ bt'.entries \in {bt.entries, bt.entries + 1}
    /\ bt'.exits \in {bt.exits, bt.exits + 1}
    /\ ~(bt'.entries # bt.entries /\ bt'.exits # bt.exits)
    /\ bt'.entries # bt.entries =>
          /\ ~bt.in_market /\ bt'.in_market
          /\ close_arr[bt_i'] > 0
          /\ bias60_arr[bt_i'] <= buy_bias_threshold
          /\ rsi_arr[bt_i'] < 40
    /\ bt'.exits # bt.exits =>
          /\ bt.in_market /\ ~bt'.in_market
          /\ close_arr[bt_i'] > 0
          /\ \/ bias5_arr[bt_i'] >= sell_bias_threshold
             \/ /\ 10 * bias5_arr[bt_i'] >= 8 * sell_bias_threshold
                /\ rsi_arr[bt_i'] > 75
    /\ bt'.in_market # bt.in_market =>
          (bt'.entries # bt.entries \/ bt'.exits # bt.exits)

\* C7: backtest_numba is a two-state single-position machine. The buy branch
\* and the sell branch strictly alternate, starting with the buy branch
\* (entries - exits is 1 when LONG and 0 when FLAT); the buy branch runs only
\* when FLAT, on a bar with positive close, long bias <= buy threshold and
\* RSI < 40; the sell branch runs only when LONG, on a bar with short
\* bias >= sell threshold, or short bias >= 0.8 * sell threshold and RSI > 75;
\* no bar runs both; trade_count is the number of exits.
C7_TwoStateMachine == []C7_Counts /\ [][C7_Step]_vars

\* C7 witness: an entry, an exit and a second entry have happened
C7_Witness == bt.entries = 2 /\ bt.exits = 1 /\ bt.in_market

\* C8: a completed trade is a win iff it increased capital (its proceeds
\* exceed the capital paid at entry, commission included): after exactly one
\* completed trade win_count is 1 iff capital is above the initial capital.
C8_WinIffCapitalGrew ==
    bt.trade_count = 1 => (bt.win_count = 1 <=> bt.capital > initial_capital)

\* the positions of the bars with positive close, in order
RECURSIVE PositiveBars(_, _)
PositiveBars(closes, k) ==
    IF k > Len(closes) THEN <<>>
    ELSE IF closes[k] > 0 THEN <<k>> \o PositiveBars(closes, k + 1)
    ELSE PositiveBars(closes, k + 1)
\* an array of the series with the bars of non-positive close removed
WithoutBadBars(arr) ==
    LET keep == PositiveBars(close_arr, 1)
    IN [k \in 1..Len(keep) |-> arr[keep[k]]]

MarkedToMarket ==
    IF bt.in_market
    THEN (bt.hold_shares * close_arr[Len(close_arr)]) \div ShareScale
    ELSE bt.capital

\* C18: when the series ends LONG the final value is the held shares times
\* the final close, the open position adds nothing to trade_count and
\* win_count, and total_return_pct = (final_value - initial_capital) /
\* initial_capital * 100; when it ends FLAT the final value is the capital
\* after the last exit.
C18_MarkToMarket ==
    bt_pc = "done" =>
      /\ bt_result.ret =
           ((MarkedToMarket - 100000 * CapScale) * 100)
              \div ((100000 * CapScale) \div PctScale)
      /\ bt_result.trades = bt.exits
      /\ bt_result.wins <= bt.exits

(***************************************************************************)
(* Grid search: claims                                                     *)
(***************************************************************************)
\* the backtest of cell c on the window
CellBacktest(c) ==
    backtest_numba(w_close_arr, w_bias_short_arr, w_bias_long_arr, w_rsi_arr,
                   CellBuy(c), CellSell(c))

Reported == w_pc \in {"done", "applied"} /\ w_return # None

\* C4: among the cells with trade_count >= MIN_STRAT_TRADES no cell has a
\* strictly greater total return than the cell whose thresholds, win rate
\* and trade count are reported.
C4_BestCell ==
    Reported =>
      \A c \in 1..NumCells :
        CellBacktest(c).trades >= 3 => CellBacktest(c).ret <= held[1].ret

\* C5: among qualifying cells of equal total return the first one in
\* iteration order is the one reported.
C5_FirstOfEquals ==
    Reported =>
      \A c \in 1..NumCells :
        (CellBacktest(c).trades >= 3 /\ CellBacktest(c).ret = held[1].ret)
          => held[1].cell <= c

\* C6: the optimizer returns a result only for a cell with trade_count >=
\* MIN_STRAT_TRADES; when every cell has fewer trades it returns no result
\* and the caller writes no ma_strategy; no persisted ma_strategy has
\* total_return = -999 or trades below the minimum.
C6_MinTrades ==
    /\ w_return # None =>
          /\ w_return[1].metrics.trades >= 3
          /\ w_return[1].total_return # -999 * PctScale
          /\ CellBacktest(held[1].cell).trades = w_return[1].metrics.trades
    /\ (w_pc \in {"done", "applied"}
          /\ \A c \in 1..NumCells : CellBacktest(c).trades < 3) =>
          (w_return = None /\ collection[TheCode].ma_strategy = None)
    /\ collection[TheCode].ma_strategy # None =>
          /\ collection[TheCode].ma_strategy[1].metrics.trades >= 3
          /\ collection[TheCode].ma_strategy[1].total_return # -999 * PctScale

\* C6 witness: a strategy is persisted although some cell of the grid traded
\* fewer than three times
C6_Witness ==
    /\ w_pc = "applied"
    /\ collection[TheCode].ma_strategy # None
    /\ \E c \in 1..NumCells :
         CellBacktest(c).trades > 0 /\ CellBacktest(c).trades < 3

(***************************************************************************)
(* _analyze_single_stock: claims                                           *)
(***************************************************************************)
\* the history the last call worked on, and the record it left
AnalyzedDoc == collection[analyzed[1].code]
AnalyzedHistory ==
    IF Len(AnalyzedDoc.qfq_history) > 0 THEN AnalyzedDoc.qfq_history
    ELSE analyzed[1].fetched
QualifyingYears == {y \in 1..5 : WindowQualifies(AnalyzedHistory, y)}
Longest(S) == CHOOSE y \in S : \A z \in S : z <= y

\* the last call reached the loop over the windows
ReachedWindows ==
    /\ analyzed # None
    /\ ~PreGateRejects(AnalyzedDoc.latest_data)
    /\ Len(AnalyzedHistory) > 0
    /\ ~TrendBroken(AnalyzedHistory)

\* C1: for a stock that passes the pre-gates and the circuit breaker the
\* stored label is the bull label of Y with trend_analysis.period_years = Y,
\* Y the largest year of 5..1 whose window passes every gate; no label is
\* stored iff no window qualifies.
C1_LongestWindow ==
    ReachedWindows =>
      IF QualifyingYears = {}
      THEN AnalyzedDoc.bull_label = None /\ AnalyzedDoc.trend_analysis = None
      ELSE /\ AnalyzedDoc.bull_label = Some(BullLabel(Longest(QualifyingYears)))
           /\ AnalyzedDoc.trend_analysis # None
           /\ AnalyzedDoc.trend_analysis[1].period_years = Longest(QualifyingYears)

\* C1 witness: the 5-year window and a shorter one both qualify, and the
\* 5-year label is stored
C1_Witness ==
    /\ ReachedWindows
    /\ 5 \in QualifyingYears
    /\ QualifyingYears # {5}
    /\ AnalyzedDoc.bull_label = Some(BullLabel(5))

\* C3: after a call on a stock without qualifying window (rejected by a
\* pre-gate, by the circuit breaker, by every window, or without usable
\* history) the record has neither bull_label nor trend_analysis.
C3_NoWindowClears ==
    (analyzed # None /\ (~ReachedWindows \/ QualifyingYears = {})) =>
      (AnalyzedDoc.bull_label = None /\ AnalyzedDoc.trend_analysis = None)

\* C14: a stock whose market cap is missing or below MIN_MARKET_CAP, or
\* whose ROE is missing or <= 0, has bull_label and trend_analysis cleared,
\* and the call returns at the pre-gates, before the circuit breaker or any
\* window is evaluated, whatever the price series is.
C14_PreGateShortCircuit ==
    (/\ analyzed # None
     /\ \/ AnalyzedDoc.latest_data.mcap = None
        \/ AnalyzedDoc.latest_data.mcap[1] < 10
        \/ AnalyzedDoc.latest_data.roe = None
        \/ AnalyzedDoc.latest_data.roe[1] <= 0)
      => /\ analyzed[1].stage = "pregate"
         /\ AnalyzedDoc.bull_label = None
         /\ AnalyzedDoc.trend_analysis = None

\* C14 witness: a stock rejected for its ROE alone, whose price series has a
\* qualifying window and does not trip the circuit breaker, has been analyzed
C14_Witness ==
    /\ analyzed # None
    /\ AnalyzedDoc.latest_data.roe = Some(0)
    /\ AnalyzedDoc.latest_data.mcap = Some(10)
    /\ Len(AnalyzedHistory) > 0
    /\ ~TrendBroken(AnalyzedHistory)
    /\ QualifyingYears # {}
    /\ AnalyzedDoc.bull_label = None

\* the moving averages of the latest bar and the long average of the
\* reference bar of the circuit breaker, as sums over their windows
LatestShortSum == RollSum(AnalyzedHistory, Len(AnalyzedHistory), TREND_MA_SHORT)
LatestLongSum == RollSum(AnalyzedHistory, Len(AnalyzedHistory), TREND_MA_LONG)
ReferenceRow == Len(AnalyzedHistory) - TrendBreakLookback + 1
ReferenceLongSum == RollSum(AnalyzedHistory, ReferenceRow, TREND_MA_LONG)

\* the last call worked on a series that trips the circuit breaker: more
\* than TREND_BREAK_CHECK_DAYS records, short MA < long MA on the latest bar,
\* long MA of the latest bar below the long MA of the reference bar
TripsBreaker ==
    /\ analyzed # None
    /\ ~PreGateRejects(AnalyzedDoc.latest_data)
    /\ Len(AnalyzedHistory) > TREND_BREAK_CHECK_DAYS
    /\ ReferenceRow >= TREND_MA_LONG
    /\ LatestShortSum * TREND_MA_LONG < LatestLongSum * TREND_MA_SHORT
    /\ LatestLongSum < ReferenceLongSum

\* C15: a series that trips the circuit breaker gets no label (a prior one
\* is cleared) and the call returns at the breaker, before per-window
\* evaluation, even if some window passes every gate.
C15_BreakerVetoes ==
    TripsBreaker =>
      /\ analyzed[1].stage = "breaker"
      /\ AnalyzedDoc.bull_label = None
      /\ AnalyzedDoc.trend_analysis = None

\* C15 witness: the breaker vetoed a series with a qualifying window
C15_Witness ==
    /\ TripsBreaker
    /\ QualifyingYears # {}
    /\ AnalyzedDoc.bull_label = None

(***************************************************************************)
(* analyze_trend and optimize_strategies: claims                           *)
(***************************************************************************)
\* C2: after any sequence of runs, a stock for which the latest run produced
\* no strategy parameters (its label was cleared by the classifier, or the
\* optimizer returned no result for it) holds no stored ma_strategy.
C2_NoStaleStrategy ==
    task = "idle" => \A c \in no_params : collection[c].ma_strategy = None

\* the k-th call of the pool returned a result; the result is in the record
Completed(k) ==
    /\ k \in 1..Len(pool)
    /\ pool[k][1] = "returned"
    /\ pool[k][2] # None
Persisted(k) ==
    Completed(k) /\ collection[target_stocks[k]].ma_strategy = pool[k][2]
SomeRaised == \E k \in 1..Len(pool) : pool[k] = <<"raised">>

\* C9: when the call for one stock raises, and no stop was requested, the
\* results of every other stock are persisted and the run reaches
\* status.finish.
C9_FailureIsolated ==
    (task = "idle" /\ last_exit \in {"finish", "raise"} /\ SomeRaised) =>
      /\ last_exit = "finish"
      /\ \A k \in 1..Len(pool) : Completed(k) => Persisted(k)

\* C10: a completed result is persisted whether or not the calls for the
\* stocks submitted before it complete (unless a stop is requested or a call
\* raises).
C10_AppliedAsCompleted ==
    \A k \in 1..Len(CodeOrder) :
      (task = "optimize_strategies" /\ Completed(k))
        ~> (Persisted(k) \/ status.should_stop \/ SomeRaised \/ task = "idle")

\* the stock analyze_trend is working on
CurrentStock ==
    IF trend_pc = "analyzing" THEN {all_basic_docs[trend_i]} ELSE {}

C12_Step ==
    (task = "analyze_trend" /\ status.should_stop) =>
      /\ \A c \in Codes \ CurrentStock : collection'[c] = collection[c]
      /\ trend_pc' = "analyzing" => trend_pc = "analyzing"
      /\ trend_i' = trend_i \/ (trend_pc = "analyzing" /\ trend_i' = trend_i + 1)

\* C12: the stop flag is checked before each stock of analyze_trend; once
\* should_stop is set, only the stock being analyzed at that moment may still
\* have its verdict written, no later stock of the list is read or written,
\* and every other stored verdict stays as it is.
C12_TrendCancellation == [][C12_Step]_vars

\* C12 witness: the stop was requested while the second stock was being
\* analyzed; its verdict was written, the loop ended before the third stock
C12_Witness ==
    /\ task = "idle" /\ last_exit = "trend"
    /\ status.should_stop
    /\ stop_point = Some([task |-> "analyze_trend", i |-> 2, pc |-> "analyzing"])
    /\ trend_i = 3
    /\ collection[CodeOrder[2]].bull_label = Some(BullLabel(5))
    /\ collection[CodeOrder[3]].bull_label = None

\* the results the calls of the current pool returned for stock c
ReturnedFor(c) ==
    {pool[k][2] : k \in {j \in 1..Len(pool) : target_stocks[j] = c /\ Completed(j)}}

\* C13: cancellation of optimize_strategies applies no partial result: the
\* stored ma_strategy of every stock is its value before the run or one
\* complete result record returned by the stock's worker, and once the loop
\* has observed should_stop no ma_strategy is written.
C13_NoPartialResult ==
    /\ [](before # <<>> =>
            \A c \in Codes :
              \/ collection[c].ma_strategy = before[c]
              \/ collection[c].ma_strategy \in ReturnedFor(c))
    /\ [][opt_pc = "stopping" =>
            \A c \in Codes : collection'[c].ma_strategy = collection[c].ma_strategy]_vars

\* C13 witness: the loop observed the stop after it wrote the result of one
\* stock, and the result returned for a later stock is not written
C13_Witness ==
    /\ opt_pc = "stopping"
    /\ \E k \in 1..Len(pool) :
         /\ Persisted(k)
         /\ collection[target_stocks[k]].ma_strategy # before[target_stocks[k]]
         /\ \E j \in (k + 1)..Len(pool) : Completed(j) /\ ~Persisted(j)

C16_Step ==
    \A c \in Codes :
      (c \in trend_raised' /\ c \notin trend_raised) =>
        /\ collection'[c].bull_label = collection[c].bull_label
        /\ collection'[c].trend_analysis = collection[c].trend_analysis
        /\ task' = "analyze_trend"
        /\ trend_i' = trend_i + 1

\* C16: when the analysis of one stock raises, the stored bull_label and
\* trend_analysis of that stock are what they were before, and the loop goes
\* on: analyze_trend ends before the end of the list only on a stop request.
C16_FailureSkipsStock ==
    /\ [][C16_Step]_vars
    /\ []((task = "idle" /\ last_exit = "trend"
            /\ trend_i <= Len(all_basic_docs)) => status.should_stop)

\* C16 witness: the analysis of the second stock raised, the label an
\* earlier run gave it is still stored, and the third stock was analyzed
C16_Witness ==
    /\ task = "analyze_trend"
    /\ trend_i = 4
    /\ CodeOrder[2] \in trend_raised
    /\ CodeOrder[3] \notin trend_raised
    /\ collection[CodeOrder[2]].bull_label = Some(BullLabel(5))
    /\ analyzed # None /\ analyzed[1].code = CodeOrder[3]

(***************************************************************************)
(* Claims about _worker_optimize_stock as a whole                          *)
(***************************************************************************)
\* the stored label of the stock, the period it names, the valid bars of
\* its history and the first of them within the period
StoredLabel ==
    IF collection[TheCode].bull_label = None THEN <<>>
    ELSE collection[TheCode].bull_label[1]
NamesPeriod ==
    \E y \in 1..5 : StoredLabel = BullLabel(y)
StoredBars == ValidRows(collection[TheCode].qfq_history)
CalendarFirst ==
    CHOOSE k \in 1..Len(StoredBars) :
        /\ StoredBars[k].date >=
              StoredBars[Len(StoredBars)].date - YearsOf(StoredLabel) * YearDays
        /\ \A j \in 1..(k - 1) :
              StoredBars[j].date <
                StoredBars[Len(StoredBars)].date - YearsOf(StoredLabel) * YearDays
\* buy and hold from the close before the window (its first open when
\* nothing precedes it) to the last close, in 1/PctScale percent
BuyAndHold ==
    LET cost == IF CalendarFirst > 1 THEN StoredBars[CalendarFirst - 1].close
                ELSE StoredBars[1].open
        last == StoredBars[Len(StoredBars)].close
    IN ((last - cost) * 100 * PctScale) \div cost

\* C19: once the grid search has its initial best_result, and after every
\* cell, and in the returned result, benchmark_return is the rounded return
\* of buying at the close of the record before the first record of the
\* window (the window's first open when the window starts at the first
\* record) and holding to the last close, whatever the cells returned.
C19_BenchmarkIndependent ==
    /\ w_pc = "grid" => best_result.benchmark_return = Round2(BuyAndHold)
    /\ (w_pc = "done" /\ w_return # None) =>
          w_return[1].benchmark_return = Round2(BuyAndHold)
\* a result is returned for a window that starts after the first record,
\* a cell having replaced the initial best_result
C19_Witness ==
    /\ w_pc = "done" /\ w_return # None /\ held # None
    /\ w_start_idx > 1
    /\ w_return[1].benchmark_return # w_return[1].total_return

\* C20: grid cells are evaluated only when the stored label names a period
\* of 1 to 5 years; for any other label the worker ends with no result;
\* and the backtested window starts at the first bar within that many
\* years of the latest bar.
C20_GridOnlyForLabel ==
    /\ w_cell > 0 => NamesPeriod
    /\ (~NamesPeriod /\ w_pc # "entry") =>
          (w_pc \in {"done", "applied"} /\ w_return = None)
    /\ w_pc \in {"slice", "grid"} =>
          Len(w_close_arr) = Len(StoredBars) - CalendarFirst + 1

(***************************************************************************)
(* analyze_ma_bias.main: claims                                            *)
(***************************************************************************)
\* the loop of line 372 is over
LoopOver == m_pc \in {"shutdown", "returned"}

\* C11: when at most one computation never finishes, no ma_strategy is
\* written for its stock; once the loop is over, every other stock of the
\* query whose computation gives a result has that result stored; and main
\* is not left at the end of the pool block waiting for a call that never
\* finishes.
C11_TimeoutKeepsBatchMoving ==
    /\ \A c \in m_hung : c \notin m_written /\ collection[c].ma_strategy = None
    /\ LoopOver =>
          \A c \in m_stocks \ m_hung :
              (get_bull_years(collection[c].bull_label) > 0 /\ m_outcome[c] # None)
                  => collection[c].ma_strategy = m_outcome[c]
    /\ m_pc = "shutdown" => RunningItems \cap m_hung = {}

(***************************************************************************)
(* check_signals_and_notify: claims                                        *)
(***************************************************************************)
\* the frame of the stock, and its latest bar as the backtester sees a bar:
\* the biases as ratios in 1/BiasScale, the RSI, and the thresholds of the
\* grid cell whose percentages the record stores
SigDf == SignalFrame(collection[TheCode])
LatestB5 == Bias(SigDf, Len(SigDf), MA_SHORT_WINDOW)
LatestB60 == Bias(SigDf, Len(SigDf), MA_LONG_WINDOW)
LatestRsi == Rsi(SigDf, Len(SigDf))
StoredParams == collection[TheCode].ma_strategy[1].params
StoredCell ==
    CHOOSE c \in 1..NumCells :
        /\ ThresholdPct(CellBuy(c)) = StoredParams.buy_ma60_bias
        /\ ThresholdPct(CellSell(c)) = StoredParams.sell_ma5_bias

\* C21: for an examined stock, it is in the buy list iff the entry condition
\* of backtest_numba holds for its latest bar under the thresholds of the
\* stored cell, and in the sell list iff the exit condition holds.
C21_SameConditions ==
    sig_pc = "evaluated" =>
      /\ TheCode \in buy_signals
            <=> BuyCondition(LatestB60, LatestRsi, CellBuy(StoredCell))
      /\ TheCode \in sell_signals
            <=> SellCondition(LatestB5, LatestRsi, CellSell(StoredCell))
\* a stock is buy-triggered and not sell-triggered under a positive sell
\* threshold
C21_Witness ==
    /\ sig_pc = "evaluated"
    /\ TheCode \in buy_signals /\ TheCode \notin sell_signals
    /\ StoredParams.sell_ma5_bias > 0

\* the distance between a percentage and a threshold is within
\* APPROACH_BUFFER of the threshold's magnitude
WithinBuffer(pct, threshold_pct) ==
    Abs(pct * 10 - threshold_pct * BiasScale) * 10
        <= Abs(threshold_pct * BiasScale) * APPROACH_BUFFER

\* C26: a stock in the near-buy list is not in the buy list and its long
\* bias is within the buffer of the buy threshold; likewise for near-sell,
\* the sell list, the short bias and the sell threshold.
C26_NearMiss ==
    /\ TheCode \in approach_buy_signals =>
          /\ TheCode \notin buy_signals
          /\ WithinBuffer(SigBiasPct(SigDf, Len(SigDf), MA_LONG_WINDOW),
                          StoredParams.buy_ma60_bias)
    /\ TheCode \in approach_sell_signals =>
          /\ TheCode \notin sell_signals
          /\ WithinBuffer(SigBiasPct(SigDf, Len(SigDf), MA_SHORT_WINDOW),
                          StoredParams.sell_ma5_bias)

\* C30: no stock is in the buy list and in the sell list; the buy list and
\* the near-buy list are disjoint, and so are the sell list and the
\* near-sell list.
C30_ExclusiveSignals ==
    /\ buy_signals \cap sell_signals = {}
    /\ buy_signals \cap approach_buy_signals = {}
    /\ sell_signals \cap approach_sell_signals = {}

(***************************************************************************)
(* _analyze_single_stock: further claims                                   *)
(***************************************************************************)
\* C22: a call of _analyze_single_stock on a record that an earlier call
\* has already classified, and whose input data (latest_data and a stored
\* qfq_history) are as they were, leaves the stored bull_label and
\* trend_analysis exactly as they are.
C22_Idempotent ==
    [][(analyzed # None /\ Len(collection[TheCode].qfq_history) > 0)
          => collection' = collection]_vars

\* the window of year years of the analysed series is a noise-free
\* exponential: log close is linear in the date, over at least two days
ExponentialWindow(year) ==
    LET df == AnalyzedHistory
        f == WindowStart(df, year)
        l == Len(df)
    IN /\ df[l].date > df[f].date
       /\ \A j \in f..l : df[j].close > 0
       /\ \A j \in f..l :
             (Log2Close(df[j].close) - Log2Close(df[f].close)) * (df[l].date - df[f].date)
               = (Log2Close(df[l].close) - Log2Close(df[f].close)) * (df[j].date - df[f].date)
\* its growth rate per year, in 1/10000 of ln 2
WindowRate(year) ==
    LET df == AnalyzedHistory
        f == WindowStart(df, year)
        l == Len(df)
    IN ((Log2Close(df[l].close) - Log2Close(df[f].close)) * YearDays * 10000)
          \div (df[l].date - df[f].date)

\* C23: on a window that is a noise-free exponential the fit has r^2 = 1
\* and the slope of the series (covariance^2 = variance product, and
\* covariance / variance of x = the rate), growing or constant or falling;
\* and when the classifier stores the fit of such a window, the stored
\* r_squared is 1 and the stored slope is the rate.
C23_ExactFit ==
    analyzed # None /\ Len(AnalyzedHistory) > 0 =>
      /\ \A year \in 1..5 :
            ExponentialWindow(year) =>
              LET f == WindowStart(AnalyzedHistory, year)
                  l == Len(AnalyzedHistory)
                  r == RegressionSums(AnalyzedHistory, f)
              IN /\ r.ssxym * r.ssxym = r.ssxm * r.ssym
                 /\ r.ssxym * (AnalyzedHistory[l].date - AnalyzedHistory[f].date)
                      = r.ssxm * (Log2Close(AnalyzedHistory[l].close)
                                   - Log2Close(AnalyzedHistory[f].close))
      /\ (/\ analyzed[1].stage = "windows"
          /\ AnalyzedDoc.bull_label # None
          /\ ExponentialWindow(AnalyzedDoc.trend_analysis[1].period_years)) =>
            /\ AnalyzedDoc.trend_analysis[1].r_squared = 100
            /\ AnalyzedDoc.trend_analysis[1].slope
                 = WindowRate(AnalyzedDoc.trend_analysis[1].period_years)
\* the classifier stored the fit of an exponential window of four bars
C23_Witness ==
    /\ analyzed # None /\ Len(AnalyzedHistory) > 0
    /\ analyzed[1].stage = "windows"
    /\ AnalyzedDoc.bull_label # None
    /\ ExponentialWindow(AnalyzedDoc.trend_analysis[1].period_years)
    /\ Len(AnalyzedHistory)
         - WindowStart(AnalyzedHistory, AnalyzedDoc.trend_analysis[1].period_years) = 3

\* the bar exactly TrendBreakLookback bars before the latest bar of the
\* analysed series, and the sum of its long window
PriorRow == Len(AnalyzedHistory) - TrendBreakLookback
PriorLongSum == RollSum(AnalyzedHistory, PriorRow, TREND_MA_LONG)

\* C24: a call that gets past the pre-gates with a series returns at the
\* circuit breaker iff the series has more than TREND_BREAK_CHECK_DAYS
\* records, the short MA of the latest bar is below its long MA, and that
\* long MA is below the long MA of the bar exactly TrendBreakLookback bars
\* before the latest bar.
C24_BreakerRule ==
    (/\ analyzed # None
     /\ ~PreGateRejects(AnalyzedDoc.latest_data)
     /\ Len(AnalyzedHistory) > 0) =>
       (analyzed[1].stage = "breaker"
          <=> /\ Len(AnalyzedHistory) > TREND_BREAK_CHECK_DAYS
              /\ LatestShortSum * TREND_MA_LONG < LatestLongSum * TREND_MA_SHORT
              /\ LatestLongSum < PriorLongSum)

\* the bars of the window of year years that have a long MA, and those of
\* them whose close is below it
MaBars(year) ==
    {k \in WindowStart(AnalyzedHistory, year)..Len(AnalyzedHistory) :
        k >= TREND_MA_LONG}
BelowBars(year) ==
    {k \in MaBars(year) :
        AnalyzedHistory[k].close * TREND_MA_LONG
          < SeqSum([j \in 1..TREND_MA_LONG |->
                      AnalyzedHistory[k - TREND_MA_LONG + j].close])}
\* the window holds n consecutive bars below the long MA
HasBelowRun(year, n) ==
    \E a \in BelowBars(year) : \A j \in a..(a + n - 1) : j \in BelowBars(year)

\* C25: _check_ma_interruption fails a window iff no bar of the window has
\* a long MA or the window holds InterruptionRun consecutive bars below the
\* long MA; and a window the classifier labels holds no such run.
C25_Interruption ==
    analyzed # None /\ Len(AnalyzedHistory) > 0 =>
      /\ \A year \in 1..5 :
            CheckMaInterruption(AnalyzedHistory, WindowStart(AnalyzedHistory, year))
              <=> (MaBars(year) = {} \/ HasBelowRun(year, InterruptionRun))
      /\ (analyzed[1].stage = "windows" /\ AnalyzedDoc.bull_label # None) =>
            /\ MaBars(AnalyzedDoc.trend_analysis[1].period_years) # {}
            /\ ~HasBelowRun(AnalyzedDoc.trend_analysis[1].period_years,
                            InterruptionRun)
\* the classifier went through the windows of a series whose 5-year window
\* holds a run of exactly InterruptionRun bars below the long MA, while its
\* 1-year window, with bars below the long MA, holds no such run
C25_Witness ==
    /\ analyzed # None /\ Len(AnalyzedHistory) > 0
    /\ analyzed[1].stage = "windows"
    /\ HasBelowRun(5, InterruptionRun) /\ ~HasBelowRun(5, InterruptionRun + 1)
    /\ MaBars(1) # {} /\ BelowBars(1) # {} /\ ~HasBelowRun(1, InterruptionRun)

(***************************************************************************)
(* backtest_numba: the invariants of its locals                            *)
(***************************************************************************)
\* C27: at every point of the loop and at the return, a position that is
\* open has hold_shares > 0 and cost_price > 0, a closed one has
\* hold_shares = 0, capital is positive, and 0 <= win_count <= trade_count.
C27_PositionInvariant ==
    bt_pc # "idle" =>
      /\ bt.in_market => (bt.hold_shares > 0 /\ bt.cost_price > 0)
      /\ ~bt.in_market => bt.hold_shares = 0
      /\ bt.capital > 0
      /\ 0 <= bt.win_count /\ bt.win_count <= bt.trade_count
\* a position was closed and another one is open
C27_Witness ==
    /\ bt_pc # "idle"
    /\ bt.in_market /\ bt.trade_count >= 1

(***************************************************************************)
(* analyze_trend and optimize_strategies: the shared status                *)
(***************************************************************************)
\* C28: when optimize_strategies has returned (after an analyze_trend that
\* called status.start, or on its own), the shared status is released:
\* is_running and should_stop are both False.
C28_StatusReleased ==
    (task = "idle" /\ last_exit \in {"empty", "finish", "stopped", "raise"}) =>
        (~status.is_running /\ ~status.should_stop)

(***************************************************************************)
(* main.py: the background tasks                                           *)
(***************************************************************************)
\* C29: at most one background task is executing at any time.
C29_OneTaskAtATime == Cardinality(Executing) <= 1
====
